---------------------------- MODULE Spec2Model ----------------------------
(***************************************************************************)
(* Model of the STREETLIGHT-PK report pipeline (backend/):                 *)
(*   utils/layer_orchestrator.py          LayerOrchestrator.process_report *)
(*   ai_layers/layer0_validation/input_validator.py     InputValidator     *)
(*   ai_layers/layer1_ai_engine/ai_engine.py            AIEngine           *)
(*   ai_layers/layer1_ai_engine/landmark_detector/      GPSVerifier,       *)
(*                                                      Geocoder           *)
(*                                                                         *)
(* Units.  Python floats are modelled by scaled integers:                  *)
(*   scores            hundredths of a point   (100.0  -> 10000)           *)
(*   confidence        1e-5                    (0.5    -> 50000)           *)
(*   distances         millimetres             (5.0 km -> 5000000)         *)
(*   coordinates       1e-7 degree             (23.0   -> 230000000)       *)
(*   clock             ticks, TicksPerSecond ticks to the second           *)
(***************************************************************************)
EXTENDS Integers, Sequences, FiniteSets, TLC

VARIABLES
    call,               \* pure-function harness: [fn, args] of the call made
    ret,                \* its return value, None before the call returns
    pc,                 \* process_report: position of the one running call
    report,             \* process_report: arguments and environment of the call
    validation_result,  \* process_report: local validation_result
    ai_result,          \* process_report: local ai_result
    decision,           \* process_report: returned dictionary
    stage1_calls,       \* number of AIEngine.predict calls made by this call
    verify_calls,       \* number of GPSVerifier.verify_location calls made
    now,                \* time.time()
    last_request_time,  \* Geocoder.last_request_time
    threads,            \* callers sharing the one Geocoder
    tpc,                \* per caller: position inside reverse_geocode
    current_time,       \* per caller: local current_time of _respect_rate_limit
    wake,               \* per caller: time at which time.sleep returns
    calls_left,         \* per caller: reverse_geocode calls still to make
    request_times       \* times at which session.get was issued, in order

vars == <<call, ret, pc, report, validation_result, ai_result, decision,
          stage1_calls, verify_calls, now, last_request_time, threads, tpc,
          current_time, wake, calls_left, request_times>>

pureVars == <<call, ret>>
pipeVars == <<pc, report, validation_result, ai_result, decision,
              stage1_calls, verify_calls>>
geoVars  == <<now, last_request_time, threads, tpc, current_time, wake,
              calls_left, request_times>>

\* Python None, in the shape of the value it stands in for: a string, a
\* tuple or number (held as a tuple), a dictionary.
None == "None"
NoneT == <<>>
NoneD == [none |-> TRUE]

\* An Optional[float] argument: a float, None, or a value float() rejects.
Float(x) == [tag |-> "float", val |-> x]
NoFloat == [tag |-> "none", val |-> 0]
NotAFloat == [tag |-> "str", val |-> 0]

----------------------------------------------------------------------------
(* Arithmetic of the Python built-ins used by the code.                    *)

Abs(x) == IF x < 0 THEN -x ELSE x
Min(a, b) == IF a <= b THEN a ELSE b
Max(a, b) == IF a >= b THEN a ELSE b

\* round(n / d): the nearest integer, ties to even (Python 3 round), d > 0.
RoundDiv(n, d) ==
    LET q == n \div d
        r == n % d
    IN  IF 2 * r < d THEN q
        ELSE IF 2 * r > d THEN q + 1
        ELSE IF q % 2 = 0 THEN q ELSE q + 1

\* int(n / d): truncation toward zero, d > 0.
TruncDiv(n, d) == IF n >= 0 THEN n \div d ELSE -((-n) \div d)

----------------------------------------------------------------------------
(* landmark_detector/config.py                                             *)

SPOOFING_THRESHOLD_KM == 5000000
VERIFIED_THRESHOLD_KM == 500000
SPOOFING_PENALTY == -50
VERIFIED_BONUS == 10
NO_GPS_PENALTY == 0
MAX_LANDMARKS_RETURN == 5

----------------------------------------------------------------------------
(* GPSVerifier._calculate_score_adjustment                                 *)

\* Mutant: the last band closed at the spoofing threshold.
CalculateScoreAdjustmentInclusive(distance_km, num_landmarks) ==
    IF distance_km > SPOOFING_THRESHOLD_KM
    THEN [score_adjustment |-> SPOOFING_PENALTY, is_spoofed |-> TRUE,
          status |-> "spoofing_detected", reason |-> "WARNING_SPOOFING"]
    ELSE IF distance_km < VERIFIED_THRESHOLD_KM /\ num_landmarks >= 2
    THEN [score_adjustment |-> VERIFIED_BONUS, is_spoofed |-> FALSE,
          status |-> "verified", reason |-> "SUCCESS_VERIFIED"]
    ELSE IF distance_km < VERIFIED_THRESHOLD_KM
    THEN [score_adjustment |-> 0, is_spoofed |-> FALSE,
          status |-> "good_match", reason |-> "SUCCESS_MATCH"]
    ELSE [score_adjustment |->
              TruncDiv(-10 * distance_km, SPOOFING_THRESHOLD_KM),
          is_spoofed |-> FALSE,
          status |-> "minor_mismatch", reason |-> "WARNING_MISMATCH"]

\* Mutant: the spoofing verdict without its flag.
CalculateScoreAdjustmentNoFlag(distance_km, num_landmarks) ==
    [CalculateScoreAdjustmentInclusive(distance_km, num_landmarks)
        EXCEPT !.is_spoofed = FALSE]

\* Mutant: two landmarks verify the location at any distance.
CalculateScoreAdjustmentLandmarksFirst(distance_km, num_landmarks) ==
    IF num_landmarks >= 2
    THEN [score_adjustment |-> VERIFIED_BONUS, is_spoofed |-> FALSE,
          status |-> "verified", reason |-> "SUCCESS_VERIFIED"]
    ELSE CalculateScoreAdjustmentInclusive(distance_km, 0)

\* The four cases in the order of the code, then the default.
\* int(-10 * (distance_km / SPOOFING_THRESHOLD_KM)) truncates toward zero.
_calculate_score_adjustment(distance_km, num_landmarks) ==
    IF distance_km > SPOOFING_THRESHOLD_KM
    THEN [score_adjustment |-> SPOOFING_PENALTY, is_spoofed |-> TRUE,
          status |-> "spoofing_detected", reason |-> "WARNING_SPOOFING"]
    ELSE IF distance_km < VERIFIED_THRESHOLD_KM /\ num_landmarks >= 2
    THEN [score_adjustment |-> VERIFIED_BONUS, is_spoofed |-> FALSE,
          status |-> "verified", reason |-> "SUCCESS_VERIFIED"]
    ELSE IF distance_km < VERIFIED_THRESHOLD_KM
    THEN [score_adjustment |-> 0, is_spoofed |-> FALSE,
          status |-> "good_match", reason |-> "SUCCESS_MATCH"]
    ELSE IF distance_km < SPOOFING_THRESHOLD_KM
    THEN [score_adjustment |->
              TruncDiv(-10 * distance_km, SPOOFING_THRESHOLD_KM),
          is_spoofed |-> FALSE,
          status |-> "minor_mismatch", reason |-> "WARNING_MISMATCH"]
    ELSE [score_adjustment |-> 0, is_spoofed |-> FALSE,
          status |-> "unknown", reason |-> ""]

----------------------------------------------------------------------------
(* InputValidator: thresholds (class attributes)                           *)

MIN_BLUR_SCORE == 10000
MIN_BRIGHTNESS == 3000
MAX_BRIGHTNESS == 23000
MIN_WIDTH == 300
MIN_HEIGHT == 300
MAX_PHOTO_AGE_DAYS == 30
PAKISTAN_LAT_MIN == 230000000
PAKISTAN_LAT_MAX == 370000000
PAKISTAN_LON_MIN == 600000000
PAKISTAN_LON_MAX == 780000000
ALLOWED_EXTENSIONS == {".jpg", ".jpeg", ".png"}
MIN_FILE_SIZE == 10 * 1024
MAX_FILE_SIZE == 10 * 1024 * 1024
MAX_IMAGE_WIDTH == 10000
MAX_IMAGE_HEIGHT == 10000
ALLOWED_COLOR_MODES == {"RGB", "RGBA", "L", "P"}
SCREENSHOT_RATIOS == << <<16, 9>>, <<9, 16>>, <<18, 9>>, <<19, 9>> >>

\* Python's `'warning' in message.lower()` over the messages a check can
\* return with passed=True.
ContainsWarning(message) ==
    message \in {"No EXIF timestamp found (accepted with warning)",
                 "No timestamp in EXIF data (accepted with warning)",
                 "Could not parse timestamp (accepted with warning)",
                 "Could not read timestamp (accepted with warning)",
                 "Warning: Image appears to be a screenshot"}

CheckResult(name, passed, score, message) ==
    [name |-> name, passed |-> passed, score |-> score, message |-> message]

(***************************************************************************)
(* An image file as the checks see it:                                     *)
(*   exists      Path.exists / os.path.getsize succeed                     *)
(*   ext         Path.suffix.lower()                                       *)
(*   pil_open    PIL Image.open succeeds (size, mode, EXIF readable)       *)
(*   pil_verify  img.verify() and img.load() succeed                       *)
(*   cv_read     cv2.imread returns an array (not None)                    *)
(*   file_size   bytes;  mode, width, height: as PIL reports them          *)
(*   blur_score, mean_brightness, std_dev: OpenCV statistics, hundredths   *)
(*   exif        "error" (_getexif raises), "none", "no_datetime",         *)
(*               "unparseable" or "dated";  age_days: (now - photo).days   *)
(*   exif_len    number of EXIF entries                                    *)
(***************************************************************************)

_check_file_size(img) ==
    IF ~img.exists
    THEN CheckResult("File Size", FALSE, 0, "File size check failed")
    ELSE IF img.file_size < MIN_FILE_SIZE
    THEN CheckResult("File Size", FALSE, 0, "File too small")
    ELSE IF img.file_size > MAX_FILE_SIZE
    THEN CheckResult("File Size", FALSE, 0, "File too large")
    ELSE LET half == 5 * 1024 * 1024
             \* 100 - ((mb - 5) / 5) * 20, in hundredths: the fraction
             \* (size - half) * 2000 / half reduced to (size - half) * 25 / 65536
             score == IF img.file_size <= half THEN 10000
                      ELSE Max(5000,
                               RoundDiv(10000 * 65536
                                        - (img.file_size - half) * 25, 65536))
         IN CheckResult("File Size", TRUE, score, "Acceptable file size")

\* Mutant: any file PIL can decode is valid, whatever its extension.
CheckFileValidAnyExtension(img) ==
    IF ~img.exists
    THEN CheckResult("File Validity", FALSE, 0, "File does not exist")
    ELSE IF ~(img.pil_open /\ img.pil_verify)
    THEN CheckResult("File Validity", FALSE, 0,
                     "Invalid or corrupted image file")
    ELSE CheckResult("File Validity", TRUE, 10000, "Valid image file")

_check_file_valid(img) ==
    IF ~img.exists
    THEN CheckResult("File Validity", FALSE, 0, "File does not exist")
    ELSE IF img.ext \notin ALLOWED_EXTENSIONS
    THEN CheckResult("File Validity", FALSE, 0, "Invalid file extension")
    ELSE IF ~(img.pil_open /\ img.pil_verify)
    THEN CheckResult("File Validity", FALSE, 0,
                     "Invalid or corrupted image file")
    ELSE CheckResult("File Validity", TRUE, 10000, "Valid image file")

_check_color_mode(img) ==
    IF ~img.pil_open
    THEN CheckResult("Color Mode", FALSE, 0, "Color mode check failed")
    ELSE IF img.mode \notin ALLOWED_COLOR_MODES
    THEN CheckResult("Color Mode", FALSE, 0, "Unsupported color mode")
    ELSE CheckResult("Color Mode", TRUE, 10000, "Valid color mode")

_check_dimensions(img) ==
    IF ~img.pil_open
    THEN CheckResult("Dimension Limits", FALSE, 0, "Dimension check failed")
    ELSE IF img.width > MAX_IMAGE_WIDTH \/ img.height > MAX_IMAGE_HEIGHT
    THEN CheckResult("Dimension Limits", FALSE, 0,
                     "Image dimensions exceed maximum allowed")
    ELSE CheckResult("Dimension Limits", TRUE, 10000, "Safe image dimensions")

\* ideal_ratios = [1.0, 1.33, 1.5, 0.75, 0.67], in hundredths
IdealRatios == {100, 133, 150, 75, 67}

_check_aspect_ratio(img) ==
    IF ~img.pil_open
    THEN CheckResult("Aspect Ratio", FALSE, 0, "Aspect ratio check failed")
    ELSE LET w == img.width
             h == img.height
             \* aspect_ratio = width / height if height > 0 else 0
             tooLow  == IF h > 0 THEN 2 * w < h ELSE TRUE
             tooHigh == IF h > 0 THEN w > 2 * h ELSE FALSE
         IN IF tooLow \/ tooHigh
            THEN CheckResult("Aspect Ratio", FALSE, 0,
                             "Aspect ratio too distorted")
            ELSE LET diffs == {Abs(100 * w - i * h) : i \in IdealRatios}
                     min_diff == CHOOSE d \in diffs : \A e \in diffs : d <= e
                     \* max(70.0, 100.0 - min_diff * 30), min_diff over 100 h
                     score == Max(7000, RoundDiv(10000 * h - 30 * min_diff, h))
                 IN CheckResult("Aspect Ratio", TRUE, score,
                                "Acceptable aspect ratio")

_check_resolution(img) ==
    IF ~img.pil_open
    THEN CheckResult("Resolution", FALSE, 0, "Resolution check failed")
    ELSE LET score == Min(10000,
                          Min(RoundDiv(img.width * 10000, MIN_WIDTH),
                              RoundDiv(img.height * 10000, MIN_HEIGHT)))
             passed == img.width >= MIN_WIDTH /\ img.height >= MIN_HEIGHT
         IN CheckResult("Resolution", passed, score,
                        IF passed THEN "Good resolution"
                                  ELSE "Resolution too low")

_check_blur(img) ==
    IF ~img.cv_read
    THEN CheckResult("Blur Detection", FALSE, 0,
                     "Could not read image for blur detection")
    ELSE LET normalized_score ==
                 \* min(100.0, (blur_score / MIN_BLUR_SCORE) * 100)
                 Min(10000, RoundDiv(img.blur_score * 10000, MIN_BLUR_SCORE))
             passed == img.blur_score >= MIN_BLUR_SCORE
         IN CheckResult("Blur Detection", passed, normalized_score,
                        IF passed THEN "Image is sharp"
                                  ELSE "Image too blurry")

_check_brightness(img) ==
    IF ~img.cv_read
    THEN CheckResult("Brightness", FALSE, 0,
                     "Could not read image for brightness check")
    ELSE LET normalized_score == RoundDiv(img.mean_brightness * 100, 255)
         IN IF img.mean_brightness < MIN_BRIGHTNESS
            THEN CheckResult("Brightness", FALSE, normalized_score,
                             "Image too dark")
            ELSE IF img.mean_brightness > MAX_BRIGHTNESS
            THEN CheckResult("Brightness", FALSE, normalized_score,
                             "Image too bright")
            ELSE CheckResult("Brightness", TRUE, normalized_score,
                             "Good brightness")

_check_null_image(img) ==
    IF ~img.cv_read
    THEN CheckResult("Content Validation", FALSE, 0,
                     "Could not read image content")
    ELSE IF img.std_dev < 500
    THEN CheckResult("Content Validation", FALSE, 0,
                     "Image appears blank or has no content")
    ELSE CheckResult("Content Validation", TRUE,
                     Min(10000, RoundDiv(img.std_dev * 100, 50)),
                     "Image has valid content")

_check_timestamp(img) ==
    IF ~img.pil_open \/ img.exif = "error"
    THEN CheckResult("Timestamp", TRUE, 5000,
                     "Could not read timestamp (accepted with warning)")
    ELSE IF img.exif = "none"
    THEN CheckResult("Timestamp", TRUE, 5000,
                     "No EXIF timestamp found (accepted with warning)")
    ELSE IF img.exif = "no_datetime"
    THEN CheckResult("Timestamp", TRUE, 5000,
                     "No timestamp in EXIF data (accepted with warning)")
    ELSE IF img.exif = "unparseable"
    THEN CheckResult("Timestamp", TRUE, 5000,
                     "Could not parse timestamp (accepted with warning)")
    ELSE LET \* max(0.0, 100.0 - (age_days / MAX_PHOTO_AGE_DAYS) * 100)
             score == Max(0, RoundDiv(10000 * MAX_PHOTO_AGE_DAYS
                                      - img.age_days * 10000,
                                      MAX_PHOTO_AGE_DAYS))
         IN IF img.age_days > MAX_PHOTO_AGE_DAYS
            THEN CheckResult("Timestamp", FALSE, score, "Photo is too old")
            ELSE CheckResult("Timestamp", TRUE, score,
                             "Photo is within acceptable range")

_check_screenshot_detection(img) ==
    IF ~img.pil_open \/ img.exif = "error"
    THEN CheckResult("Screenshot Detection", TRUE, 8000,
                     "Could not determine if screenshot (check skipped)")
    ELSE LET w == img.width
             h == img.height
             \* abs(aspect_ratio - ratio_w / ratio_h) < 0.05
             near(r) == IF h > 0
                        THEN 20 * Abs(w * r[2] - r[1] * h) < h * r[2]
                        ELSE 20 * r[1] < r[2]
             is_screenshot_ratio ==
                 \E i \in DOMAIN SCREENSHOT_RATIOS : near(SCREENSHOT_RATIOS[i])
             has_minimal_exif == img.exif = "none" \/ img.exif_len < 5
         IN IF is_screenshot_ratio /\ has_minimal_exif
            THEN CheckResult("Screenshot Detection", TRUE, 6000,
                             "Warning: Image appears to be a screenshot")
            ELSE CheckResult("Screenshot Detection", TRUE, 10000,
                             "Image appears to be an original photo")

\* round(x, 6) of a coordinate given in 1e-7 degree
Round6(x) == RoundDiv(x, 10) * 10

\* Mutant: the bounds tested on the coordinates as given.
CheckGpsUnrounded(latitude, longitude) ==
    IF latitude.tag = "none" \/ longitude.tag = "none"
    THEN CheckResult("GPS Validation", FALSE, 0,
                     "GPS coordinates required for validation")
    ELSE IF latitude.tag = "str" \/ longitude.tag = "str"
    THEN CheckResult("GPS Validation", FALSE, 0, "Invalid GPS coordinates")
    ELSE IF /\ PAKISTAN_LAT_MIN <= latitude.val
            /\ latitude.val <= PAKISTAN_LAT_MAX
            /\ PAKISTAN_LON_MIN <= longitude.val
            /\ longitude.val <= PAKISTAN_LON_MAX
    THEN CheckResult("GPS Validation", TRUE, 10000, "Valid Pakistan location")
    ELSE CheckResult("GPS Validation", FALSE, 0,
                     "GPS location outside Pakistan bounds")

_check_gps(latitude, longitude) ==
    IF latitude.tag = "none" \/ longitude.tag = "none"
    THEN CheckResult("GPS Validation", FALSE, 0,
                     "GPS coordinates required for validation")
    ELSE IF latitude.tag = "str" \/ longitude.tag = "str"
    THEN CheckResult("GPS Validation", FALSE, 0, "Invalid GPS coordinates")
    ELSE LET lat == Round6(latitude.val)
             lon == Round6(longitude.val)
             lat_valid == PAKISTAN_LAT_MIN <= lat /\ lat <= PAKISTAN_LAT_MAX
             lon_valid == PAKISTAN_LON_MIN <= lon /\ lon <= PAKISTAN_LON_MAX
         IN IF lat_valid /\ lon_valid
            THEN CheckResult("GPS Validation", TRUE, 10000,
                             "Valid Pakistan location")
            ELSE CheckResult("GPS Validation", FALSE, 0,
                             "GPS location outside Pakistan bounds")

\* weights of _calculate_quality, in tenths; 1.0 for any other name
Weight(name) ==
    CASE name = "File Size" -> 20
      [] name = "File Validity" -> 20
      [] name = "Color Mode" -> 18
      [] name = "Dimension Limits" -> 20
      [] name = "Aspect Ratio" -> 15
      [] name = "Resolution" -> 15
      [] name = "Blur Detection" -> 18
      [] name = "Brightness" -> 15
      [] name = "Content Validation" -> 17
      [] name = "Timestamp" -> 8
      [] name = "Screenshot Detection" -> 5
      [] name = "GPS Validation" -> 12
      [] OTHER -> 10

RECURSIVE SumScore(_, _)
SumScore(checks, i) ==
    IF i > Len(checks) THEN 0
    ELSE checks[i].score * Weight(checks[i].name) + SumScore(checks, i + 1)

RECURSIVE SumWeight(_, _)
SumWeight(checks, i) ==
    IF i > Len(checks) THEN 0
    ELSE Weight(checks[i].name) + SumWeight(checks, i + 1)

\* Mutant: the plain mean of the scores.
CalculateQualityUnweighted(checks) ==
    LET total[i \in 0..Len(checks)] ==
            IF i = 0 THEN 0 ELSE total[i - 1] + checks[i].score
    IN IF Len(checks) = 0 THEN 0 ELSE RoundDiv(total[Len(checks)], Len(checks))

\* total_score / total_weight, rounded to 2 decimals by validate_all
_calculate_quality(checks) ==
    LET total_score == SumScore(checks, 1)
        total_weight == SumWeight(checks, 1)
    IN IF total_weight = 0 THEN 0 ELSE RoundDiv(total_score, total_weight)

\* Mutant: a failed GPS Validation is a warning.
HardErrorChecksWithoutGps ==
    {"File Validity", "Resolution", "Blur Detection", "Brightness"}

\* Mutant: a failed Timestamp check is an error too.
HardErrorChecksWithTimestamp ==
    {"File Validity", "Resolution", "Blur Detection", "Brightness",
     "Timestamp", "GPS Validation"}

\* the names whose failure goes to errors
HardErrorChecks ==
    {"File Validity", "Resolution", "Blur Detection", "Brightness",
     "GPS Validation"}

\* The collection loop of validate_all: the messages of `checks` that go to
\* errors (hard = TRUE) or to warnings (hard = FALSE), in checklist order.
RECURSIVE Collect(_, _, _)
Collect(checks, i, hard) ==
    IF i > Len(checks) THEN <<>>
    ELSE LET check == checks[i]
             toErrors == ~check.passed /\ check.name \in HardErrorChecks
             toWarnings == \/ ~check.passed /\ check.name \notin HardErrorChecks
                           \/ check.passed /\ ContainsWarning(check.message)
             here == IF (hard /\ toErrors) \/ (~hard /\ toWarnings)
                     THEN <<check.message>> ELSE <<>>
         IN here \o Collect(checks, i + 1, hard)

\* Mutant: the checklist abandoned once the file is found invalid.
RunChecksStopAtInvalidFile(img, latitude, longitude) ==
    IF ~_check_file_valid(img).passed
    THEN << _check_file_size(img), _check_file_valid(img) >>
    ELSE << _check_file_size(img), _check_file_valid(img),
            _check_color_mode(img), _check_dimensions(img),
            _check_aspect_ratio(img), _check_resolution(img),
            _check_blur(img), _check_brightness(img), _check_null_image(img),
            _check_timestamp(img), _check_screenshot_detection(img),
            _check_gps(latitude, longitude) >>

RunChecks(img, latitude, longitude) ==
    << _check_file_size(img), _check_file_valid(img), _check_color_mode(img),
       _check_dimensions(img), _check_aspect_ratio(img),
       _check_resolution(img), _check_blur(img), _check_brightness(img),
       _check_null_image(img), _check_timestamp(img),
       _check_screenshot_detection(img), _check_gps(latitude, longitude) >>

\* Mutant: validity decided by the quality score.
ValidateAllByQuality(img, latitude, longitude) ==
    LET checks == RunChecks(img, latitude, longitude)
        errors == Collect(checks, 1, TRUE)
    IN [is_valid |-> _calculate_quality(checks) >= 5000,
        overall_quality |-> _calculate_quality(checks),
        errors |-> errors,
        warnings |-> Collect(checks, 1, FALSE),
        checks |-> checks,
        filename |-> img.name]

validate_all(img, latitude, longitude) ==
    LET checks == RunChecks(img, latitude, longitude)
        errors == Collect(checks, 1, TRUE)
        warnings == Collect(checks, 1, FALSE)
        overall_quality == _calculate_quality(checks)
        is_valid == Len(errors) = 0
    IN [is_valid |-> is_valid,
        overall_quality |-> overall_quality,
        errors |-> errors,
        warnings |-> warnings,
        checks |-> checks,
        filename |-> img.name]

----------------------------------------------------------------------------
(* GPSVerifier                                                             *)

\* Mutant: the two ranges exchanged.
IsValidCoordinateSwappedRanges(latitude, longitude) ==
    /\ latitude.tag = "float"
    /\ longitude.tag = "float"
    /\ -1800000000 <= latitude.val /\ latitude.val <= 1800000000
    /\ -900000000 <= longitude.val /\ longitude.val <= 900000000

\* float() of both arguments, then -90 <= lat <= 90 and -180 <= lon <= 180
_is_valid_coordinate(latitude, longitude) ==
    /\ latitude.tag = "float"
    /\ longitude.tag = "float"
    /\ -900000000 <= latitude.val /\ latitude.val <= 900000000
    /\ -1800000000 <= longitude.val /\ longitude.val <= 1800000000

\* Haversine with R = 6371.0 km.  For two points of one meridian (dlon = 0)
\* a = sin(dlat/2)^2 and c = |dlat|, so the distance is R * |dlat|:
\* 6371 km * pi / 180 = 111.195 km per degree, 11.1195 mm per 1e-7 degree.
\* The sample points of one call share their longitude.  Beyond 18 degrees
\* (2001.51 km) the millimetres leave the range of the integers computed
\* with, and the distance is given as 2001.51 km: every threshold of the
\* code is below 6 km.
calculate_distance_km(lat1, lon1, lat2, lon2) ==
    CASE lon1 = lon2 ->
        LET dlat == Min(Abs(lat2 - lat1), 180000000)
        IN (dlat \div 10000) * 111195 + ((dlat % 10000) * 111195) \div 10000

\* Geocoder.get_short_address: None for coordinates reverse_geocode refuses
\* and for every failure of the request, which reverse_geocode catches;
\* `response` is the short address the service would give, or None.
get_short_address(latitude, longitude, response) ==
    IF ~_is_valid_coordinate(Float(latitude), Float(longitude)) THEN None
    ELSE response

\* Insertion of x into an ascending sequence.
RECURSIVE Insert(_, _)
Insert(x, sorted) ==
    IF sorted = <<>> THEN <<x>>
    ELSE IF x < Head(sorted) THEN <<x>> \o sorted
    ELSE <<Head(sorted)>> \o Insert(x, Tail(sorted))

\* list.sort(key=distance_m): stable, ascending.
RECURSIVE SortAsc(_)
SortAsc(seq) ==
    IF seq = <<>> THEN <<>> ELSE Insert(seq[Len(seq)], SortAsc(SubSeq(seq, 1, Len(seq) - 1)))

\* LandmarkFinder.find_nearby_landmarks: the parsed landmarks (here their
\* distance_m) sorted by distance and cut to MAX_LANDMARKS_RETURN; [] when
\* the request or its parsing fails (overpass = <<-1>>).
find_nearby_landmarks(overpass) ==
    IF overpass = <<-1>> THEN <<>>
    ELSE LET landmarks == SortAsc(overpass)
         IN SubSeq(landmarks, 1, Min(Len(landmarks), MAX_LANDMARKS_RETURN))

\* round(distance_km, 3): to the metre
Round3(distance_km) == RoundDiv(distance_km, 1000) * 1000

\* Mutant: a coordinate given alone is compared, the other taken from the
\* photo.
SubmittedPointPerCoordinate(photo_lat, photo_lon, lat, lon) ==
    <<IF lat.tag = "float" THEN lat.val ELSE photo_lat,
      IF lon.tag = "float" THEN lon.val ELSE photo_lon>>

\* Step 2 of verify_location: the point compared with the photo's is the
\* submitted one when both coordinates are given, else the photo's own.
SubmittedPoint(photo_lat, photo_lon, submitted_lat, submitted_lon) ==
    IF submitted_lat.tag # "none" /\ submitted_lon.tag # "none"
    THEN <<submitted_lat.val, submitted_lon.val>>
    ELSE <<photo_lat, photo_lon>>

\* photo_gps_data: <<latitude, longitude>> from ExifExtractor.extract_gps,
\* or NoneT.  env: what the two services answer,
\*   [photo_address, submitted_address, overpass].
verify_location(photo_gps_data, submitted_lat, submitted_lon, env) ==
    LET result0 == [has_photo_gps |-> FALSE,
                    photo_gps |-> NoneT,
                    submitted_gps |-> NoneT,
                    photo_address |-> None,
                    submitted_address |-> None,
                    distance_km |-> NoneT,
                    nearby_landmarks |-> <<>>,
                    is_spoofed |-> FALSE,
                    score_adjustment |-> NO_GPS_PENALTY,
                    penalty_reason |-> "",
                    verification_status |-> "unknown"]
    IN IF photo_gps_data = NoneT
       THEN [result0 EXCEPT !.verification_status = "no_gps_in_photo",
                            !.penalty_reason = "ERROR_NO_GPS"]
       ELSE
       LET photo_lat == photo_gps_data[1]
           photo_lon == photo_gps_data[2]
           result1 == [result0 EXCEPT !.photo_gps = <<photo_lat, photo_lon>>,
                                      !.has_photo_gps = TRUE]
           provided == submitted_lat.tag # "none" /\ submitted_lon.tag # "none"
       IN IF provided /\ ~_is_valid_coordinate(submitted_lat, submitted_lon)
          THEN [result1 EXCEPT !.verification_status = "invalid_submitted_gps",
                               !.penalty_reason = "ERROR_INVALID_SUBMITTED_GPS"]
          ELSE
          LET submitted == SubmittedPoint(photo_lat, photo_lon,
                                          submitted_lat, submitted_lon)
              sub_lat == submitted[1]
              sub_lon == submitted[2]
              distance_km == calculate_distance_km(photo_lat, photo_lon,
                                                   sub_lat, sub_lon)
              photo_address ==
                  get_short_address(photo_lat, photo_lon, env.photo_address)
              \* distance_km > 0.1: only geocode submitted if different
              submitted_address ==
                  IF distance_km > 100000
                  THEN get_short_address(sub_lat, sub_lon,
                                         env.submitted_address)
                  ELSE photo_address
              landmarks == find_nearby_landmarks(env.overpass)
              adj == _calculate_score_adjustment(distance_km, Len(landmarks))
          IN [result1 EXCEPT !.submitted_gps = <<sub_lat, sub_lon>>,
                             !.distance_km = <<Round3(distance_km)>>,
                             !.photo_address = photo_address,
                             !.submitted_address = submitted_address,
                             !.nearby_landmarks = landmarks,
                             !.score_adjustment = adj.score_adjustment,
                             !.is_spoofed = adj.is_spoofed,
                             !.verification_status = adj.status,
                             !.penalty_reason = adj.reason]

----------------------------------------------------------------------------
(* ExifExtractor and the requests verify_location sends                    *)

\* Mutant: a missing hemisphere reference read as north / east.
ConvertGpsCoordinateDefaultRef(coord, ref) ==
    IF coord = NoneT THEN NoneT
    ELSE IF Len(coord) < 3 THEN NoneT
    ELSE LET decimal == coord[1] * 10000000
                          + RoundDiv(coord[2] * 10000000, 60)
                          + RoundDiv(coord[3] * 100000, 3600)
         IN IF ref \in {"S", "W"} THEN <<-decimal>> ELSE <<decimal>>

\* ExifExtractor._convert_gps_coordinate.  coord: <<degrees, minutes,
\* seconds (hundredths)>>, a shorter tuple (IndexError) or NoneT; ref: the
\* hemisphere letter or None.  The result is <<decimal degrees>> in 1e-7
\* degree, or NoneT.
_convert_gps_coordinate(coord, ref) ==
    IF coord = NoneT \/ ref = None THEN NoneT
    ELSE IF Len(coord) < 3 THEN NoneT
    ELSE LET decimal == coord[1] * 10000000
                          + RoundDiv(coord[2] * 10000000, 60)
                          + RoundDiv(coord[3] * 100000, 3600)
         IN IF ref \in {"S", "W"} THEN <<-decimal>> ELSE <<decimal>>

\* ExifExtractor.extract_gps.  exif: what PIL reads from the file,
\*   [state, GPSLatitude, GPSLatitudeRef, GPSLongitude, GPSLongitudeRef]
\* with state "read_error" (Image.open or _getexif raises), "no_exif",
\* "no_gpsinfo" or "gps".  The result is <<latitude, longitude>> or NoneT.
extract_gps(exif) ==
    IF exif.state \in {"read_error", "no_exif", "no_gpsinfo"} THEN NoneT
    ELSE LET latitude == _convert_gps_coordinate(exif.GPSLatitude,
                                                 exif.GPSLatitudeRef)
             longitude == _convert_gps_coordinate(exif.GPSLongitude,
                                                  exif.GPSLongitudeRef)
         IN IF latitude = NoneT \/ longitude = NoneT THEN NoneT
            ELSE <<latitude[1], longitude[1]>>

\* The HTTP requests one verify_location sends, in order: "nominatim" by
\* Geocoder.reverse_geocode (only for coordinates it accepts), "overpass" by
\* LandmarkFinder.find_nearby_landmarks.
verify_location_requests(photo_gps_data, submitted_lat, submitted_lon) ==
    IF photo_gps_data = NoneT THEN <<>>
    ELSE
    LET photo_lat == photo_gps_data[1]
        photo_lon == photo_gps_data[2]
        provided == submitted_lat.tag # "none" /\ submitted_lon.tag # "none"
    IN IF provided /\ ~_is_valid_coordinate(submitted_lat, submitted_lon)
       THEN <<>>
       ELSE
       LET submitted == SubmittedPoint(photo_lat, photo_lon,
                                       submitted_lat, submitted_lon)
           sub_lat == submitted[1]
           sub_lon == submitted[2]
           distance_km == calculate_distance_km(photo_lat, photo_lon,
                                                sub_lat, sub_lon)
           geocode(lat, lon) ==
               IF _is_valid_coordinate(Float(lat), Float(lon))
               THEN <<"nominatim">> ELSE <<>>
       IN geocode(photo_lat, photo_lon)
          \o (IF distance_km > 100000 THEN geocode(sub_lat, sub_lon)
              ELSE <<>>)
          \o <<"overpass">>

----------------------------------------------------------------------------
(* AIEngine                                                                *)

\* LayerOrchestrator.__init__: AIEngine(model_path, confidence_threshold=0.5)
confidence_threshold == 50000

\* A heuristic that fails internally ("error") votes "medium".
_estimate_severity_by_size(outcome) ==
    IF outcome = "error" THEN "medium" ELSE outcome

_estimate_severity_by_features(outcome) ==
    IF outcome = "error" THEN "medium" ELSE outcome

severity_levels == [small |-> 0, medium |-> 1, large |-> 2]

\* Mutant: the size-based vote alone.
EstimateSeveritySizeOnly(size_outcome, feature_outcome) ==
    _estimate_severity_by_size(size_outcome)

_estimate_severity(size_outcome, feature_outcome) ==
    LET size_severity == _estimate_severity_by_size(size_outcome)
        feature_severity == _estimate_severity_by_features(feature_outcome)
        size_level == severity_levels[size_severity]
        feature_level == severity_levels[feature_severity]
        final_level == Max(size_level, feature_level)
    IN CHOOSE sev \in DOMAIN severity_levels :
           severity_levels[sev] = final_level

\* A message: the template chosen and the values formatted into it
\* (pct: confidence_pct:.1f in tenths, km: distance:.2f in hundredths).
Message(text, cls, pct, km, points, clause) ==
    [text |-> text, cls |-> cls, pct |-> pct, km |-> km, points |-> points,
     clause |-> clause]
Text(text) == Message(text, None, 0, 0, 0, None)

\* Mutant: the non-issue explanation tested before the spoofing flag.
GenerateMessageNonIssueFirst(predicted_class, confidence, is_valid, gps) ==
    IF ~is_valid /\ predicted_class = "other"
    THEN Text("This doesn't appear to be a civic issue")
    ELSE IF gps.is_spoofed
    THEN Message("GPS SPOOFING DETECTED", None, 0, 0,
                 gps.score_adjustment, None)
    ELSE IF ~is_valid
    THEN Message("Low confidence detection", predicted_class,
                 RoundDiv(confidence, 100), 0, 0, None)
    ELSE Message("Acceptable", predicted_class, RoundDiv(confidence, 100),
                 0, 0, None)

_generate_message(predicted_class, confidence, is_valid, gps_verification) ==
    LET pct == RoundDiv(confidence, 100)
        km == IF gps_verification.distance_km = NoneT THEN 0
              ELSE RoundDiv(gps_verification.distance_km[1], 10000)
        status == gps_verification.verification_status
    IN IF gps_verification.is_spoofed
       THEN Message("GPS SPOOFING DETECTED", None, 0, km,
                    gps_verification.score_adjustment, None)
       ELSE IF ~is_valid
       THEN IF predicted_class = "other"
            THEN Text("This doesn't appear to be a civic issue")
            ELSE Message("Low confidence detection", predicted_class, pct,
                         0, 0, None)
       ELSE LET quality == IF confidence >= 90000 THEN "Clear"
                           ELSE IF confidence >= 70000 THEN "Good"
                           ELSE "Acceptable"
            IN IF status = "verified"
               THEN Message(quality, predicted_class, pct, 0, 0,
                            "Location verified with nearby landmarks.")
               ELSE IF status = "good_match"
               THEN Message(quality, predicted_class, pct, 0, 0,
                            "Location matches submitted coordinates.")
               ELSE IF status = "minor_mismatch"
               THEN Message(quality, predicted_class, pct, km, 0,
                            "Minor location mismatch")
               ELSE Message(quality, predicted_class, pct, 0, 0, None)

\* Mutant: the sum left unclamped.
FinalScoreUnclamped(ai_score, score_adjustment) ==
    ai_score + 100 * score_adjustment

\* max(0, min(100, ai_score + score_adjustment)), in hundredths
FinalScore(ai_score, score_adjustment) ==
    Max(0, Min(10000, ai_score + 100 * score_adjustment))

\* Mutant: the threshold made exclusive.
IsValidIssueStrict(predicted_class, confidence_value) ==
    predicted_class # "other" /\ confidence_value > confidence_threshold

IsValidIssue(predicted_class, confidence_value) ==
    predicted_class # "other" /\ confidence_value >= confidence_threshold

(***************************************************************************)
(* AIEngine.predict.  model_out is what the classifier and the two         *)
(* severity heuristics compute from the pixels:                            *)
(*   [raises, predicted_class, confidence, size, features]                 *)
(* and world what verify_location finds outside the process:               *)
(*   [photo_gps, photo_address, submitted_address, overpass].              *)
(* The result is [raised |-> TRUE] when the call raises (file missing,     *)
(* image not decodable, inference error), which predict re-raises.         *)
(* all_probabilities is not modelled (only its arg max is used) and        *)
(* image_hash is always None.                                              *)
(***************************************************************************)
predict(img, submitted_lat, submitted_lon, model_out, world) ==
    IF ~img.exists \/ ~img.pil_open \/ ~img.pil_verify \/ model_out.raises
    THEN [raised |-> TRUE]
    ELSE
    LET confidence_value == model_out.confidence
        predicted_class == model_out.predicted_class
        is_valid_issue == IsValidIssue(predicted_class, confidence_value)
        severity == IF is_valid_issue
                    THEN _estimate_severity(model_out.size, model_out.features)
                    ELSE None
        gps_verification ==
            verify_location(world.photo_gps, submitted_lat, submitted_lon,
                            world)
        \* round(confidence_value * 100, 2)
        ai_score == RoundDiv(confidence_value, 10)
        score_adjustment == gps_verification.score_adjustment
        final_score == FinalScore(ai_score, score_adjustment)
        message == _generate_message(predicted_class, confidence_value,
                                     is_valid_issue, gps_verification)
    IN [raised |-> FALSE,
        predicted_class |-> predicted_class,
        confidence |-> RoundDiv(confidence_value, 10),
        ai_score |-> ai_score,
        severity |-> severity,
        image_hash |-> None,
        is_valid_issue |-> is_valid_issue,
        gps_verification |-> gps_verification,
        final_score |-> final_score,
        message |-> message]

----------------------------------------------------------------------------
(* Sample inputs.                                                          *)

\* How many attribute groups of an image may differ from BaseImage.
MaxDeviations == 2

\* <<exists, ext, pil_open, pil_verify, cv_read>>: a missing file opens for
\* nobody, and verify()/load() need an opened image.
FileStates ==
    {f \in BOOLEAN \X {".jpg", ".gif"} \X BOOLEAN \X BOOLEAN \X BOOLEAN :
        /\ ~f[1] => (~f[3] /\ ~f[5])
        /\ f[4] => f[3]}
FileSizes == {10239, 10240, 7340032, 10485760, 10485761}
ColorModes == {"RGB", "CMYK"}
Dimensions == {<<1000, 1000>>, <<50, 50>>, <<1920, 1080>>, <<400, 900>>,
               <<10001, 6000>>}
BlurScores == {5000, 10000, 25000}
Brightnesses == {2000, 3000, 12800, 23000, 24000}
StdDevs == {300, 4000}
\* <<exif, age_days, exif_len>>
ExifStates == {<<"dated", 3, 12>>, <<"dated", 30, 12>>, <<"dated", 31, 12>>,
               <<"dated", 400, 3>>, <<"dated", -2, 12>>, <<"none", 0, 0>>,
               <<"no_datetime", 0, 3>>, <<"unparseable", 0, 12>>,
               <<"error", 0, 0>>}

BaseTuple == << <<TRUE, ".jpg", TRUE, TRUE, TRUE>>, 7340032, "RGB",
                <<1000, 1000>>, 25000, 12800, 4000, <<"dated", 3, 12>> >>

MkImage(t) ==
    [name |-> "report.jpg",
     exists |-> t[1][1], ext |-> t[1][2], pil_open |-> t[1][3],
     pil_verify |-> t[1][4], cv_read |-> t[1][5],
     file_size |-> t[2], mode |-> t[3],
     width |-> t[4][1], height |-> t[4][2],
     blur_score |-> t[5], mean_brightness |-> t[6], std_dev |-> t[7],
     exif |-> t[8][1], age_days |-> t[8][2], exif_len |-> t[8][3]]

Deviations(t) == Cardinality({i \in 1..8 : t[i] # BaseTuple[i]})

ImagesWithin(k) ==
    {MkImage(t) : t \in {u \in FileStates \X FileSizes \X ColorModes
                               \X Dimensions \X BlurScores \X Brightnesses
                               \X StdDevs \X ExifStates : Deviations(u) <= k}}

BaseImage == MkImage(BaseTuple)

\* Submitted coordinates (1e-7 degree): Lahore, the corners of the Pakistan
\* rectangle and their neighbours, absent and non-numeric values.
Latitudes == {Float(315204000), Float(230000000), Float(229999996),
              Float(229999994), Float(370000004), Float(370000006),
              Float(910000000), NoFloat, NotAFloat}
Longitudes == {Float(743587000), Float(600000000), Float(599999994),
               Float(599999996), Float(780000004), Float(780000006),
               Float(1810000000), NoFloat}

----------------------------------------------------------------------------
(* Idle values of the parts a specification does not exercise.             *)

PureIdle == call = NoneD /\ ret = NoneD
PipeIdle == /\ pc = "off"
            /\ report = NoneD
            /\ validation_result = NoneD
            /\ ai_result = NoneD
            /\ decision = NoneD
            /\ stage1_calls = 0
            /\ verify_calls = 0
GeoIdle == /\ now = 0
           /\ last_request_time = 0
           /\ threads = {}
           /\ tpc = <<>>
           /\ current_time = <<>>
           /\ wake = <<>>
           /\ calls_left = <<>>
           /\ request_times = <<>>

----------------------------------------------------------------------------
(* InputValidator.validate_all on its own.                                 *)

InitValidate ==
    /\ call \in [fn : {"validate_all"}, img : ImagesWithin(MaxDeviations),
                 latitude : Latitudes, longitude : Longitudes]
    /\ ret = NoneD
    /\ PipeIdle
    /\ GeoIdle

CallValidateAll ==
    /\ call.fn = "validate_all"
    /\ ret = NoneD
    /\ ret' = validate_all(call.img, call.latitude, call.longitude)
    /\ UNCHANGED <<call, pipeVars, geoVars>>

SpecValidate == InitValidate /\ [][CallValidateAll]_vars

----------------------------------------------------------------------------
(* LayerOrchestrator.process_report, one call at a time.                   *)

PipelineImages ==
    {BaseImage,
     [BaseImage EXCEPT !.width = 50, !.height = 50],
     [BaseImage EXCEPT !.blur_score = 5000],
     [BaseImage EXCEPT !.exists = FALSE, !.pil_open = FALSE,
                       !.pil_verify = FALSE, !.cv_read = FALSE],
     [BaseImage EXCEPT !.ext = ".gif"],
     [BaseImage EXCEPT !.pil_verify = FALSE],
     [BaseImage EXCEPT !.pil_open = FALSE, !.pil_verify = FALSE,
                       !.cv_read = FALSE],
     [BaseImage EXCEPT !.mode = "CMYK"],
     [BaseImage EXCEPT !.width = 1920, !.height = 1080, !.exif = "none",
                       !.exif_len = 0],
     [BaseImage EXCEPT !.age_days = 400]}

\* <<latitude, longitude>> as submitted
PipelineCoords ==
    {<<Float(315204000), Float(743587000)>>,
     <<Float(229999996), Float(743587000)>>,
     <<Float(315204000), Float(599999994)>>,
     <<Float(910000000), Float(743587000)>>,
     <<NoFloat, Float(743587000)>>}

ClassNames == {"pothole", "garbage", "other"}
\* the arg max of a softmax over three classes is at least 1/3
Confidences == {33334, 49999, 50000, 69996, 85000, 90000, 95000, 100000}
SeverityOutcomes == {"small", "medium", "large", "error"}
ModelOutputs ==
    [raises : {FALSE}, predicted_class : ClassNames, confidence : Confidences,
     size : SeverityOutcomes, features : SeverityOutcomes]
    \cup [raises : {TRUE}, predicted_class : {"other"}, confidence : {33334},
          size : {"error"}, features : {"error"}]

\* Offsets (1e-7 degree of latitude) of the photo's EXIF position from the
\* point it is compared with: 0 m, 89 m, 400 m, 600 m, 2.5 km, 4.9 km, 5.1 km.
PhotoOffsets == {0, 8000, 36000, 54000, 225000, 441000, 460000}
\* <<latitude, longitude>> of Lahore
Lahore == <<315204000, 743587000>>

\* The EXIF positions offered for a call: on the meridian of the submitted
\* point when that is a coordinate, else on Lahore's; NoneT: no EXIF GPS.
PhotoPoints(latitude, longitude) ==
    {NoneT} \cup
    IF _is_valid_coordinate(latitude, longitude)
    THEN {<<latitude.val + off, longitude.val>> : off \in PhotoOffsets}
    ELSE {<<Lahore[1] + off, Lahore[2]>> : off \in PhotoOffsets}

\* What Overpass returns, as parsed distance_m; <<-1>>: the request fails.
OverpassAnswers ==
    {<<-1>>, <<>>, <<120>>, <<300, 80>>, <<450, 20, 310, 90, 200, 499>>}

Worlds(latitude, longitude) ==
    [photo_gps : PhotoPoints(latitude, longitude),
     photo_address : {None, "Mall Road, Lahore, Punjab"},
     submitted_address : {None, "Canal Road, Lahore, Punjab"},
     overpass : OverpassAnswers]

InitPipeline ==
    /\ pc = "idle"
    /\ report = NoneD
    /\ validation_result = NoneD
    /\ ai_result = NoneD
    /\ decision = NoneD
    /\ stage1_calls = 0
    /\ verify_calls = 0

\* The caller (create_report) invokes process_report.
Submit ==
    /\ pc = "idle"
    /\ \E img \in PipelineImages, c \in PipelineCoords :
           report' = [image |-> img, latitude |-> c[1], longitude |-> c[2]]
    /\ pc' = "stage0"
    /\ validation_result' = NoneD
    /\ ai_result' = NoneD
    /\ decision' = NoneD
    /\ stage1_calls' = 0
    /\ verify_calls' = 0
    /\ UNCHANGED <<pureVars, geoVars>>

\* LAYER 0: validation_result = self.input_validator.validate_all(...)
Stage0 ==
    /\ pc = "stage0"
    /\ validation_result' =
           validate_all(report.image, report.latitude, report.longitude)
    /\ pc' = "stage0_done"
    /\ UNCHANGED <<report, ai_result, decision, stage1_calls, verify_calls,
                   pureVars, geoVars>>

\* Mutant: a Stage 0 rejection that keeps the errors to the report.
RejectStage0WithoutErrors ==
    /\ pc = "stage0_done"
    /\ ~validation_result.is_valid
    /\ decision' = [passed |-> FALSE,
                    errors |-> <<>>,
                    warnings |-> validation_result.warnings,
                    layer0 |-> validation_result,
                    layer1 |-> NoneD,
                    final_score |-> 0,
                    agent_decision |-> "REJECTED",
                    agent_reason |-> Text("Image quality validation failed")]
    /\ pc' = "returned"
    /\ UNCHANGED <<report, validation_result, ai_result, stage1_calls,
                   verify_calls, pureVars, geoVars>>

\* if not validation_result['is_valid']: return {...}
RejectStage0 ==
    /\ pc = "stage0_done"
    /\ ~validation_result.is_valid
    /\ decision' = [passed |-> FALSE,
                    errors |-> validation_result.errors,
                    warnings |-> validation_result.warnings,
                    layer0 |-> validation_result,
                    layer1 |-> NoneD,
                    final_score |-> 0,
                    agent_decision |-> "REJECTED",
                    agent_reason |-> Text("Image quality validation failed")]
    /\ pc' = "returned"
    /\ UNCHANGED <<report, validation_result, ai_result, stage1_calls,
                   verify_calls, pureVars, geoVars>>

\* The step of Stage1 once its guard holds.
RunStage1 ==
    /\ \E model_out \in ModelOutputs,
          world \in Worlds(report.latitude, report.longitude) :
          LET out == predict(report.image, report.latitude, report.longitude,
                             model_out, world)
          IN /\ ai_result' = IF out.raised THEN NoneD ELSE out
             /\ pc' = IF out.raised THEN "raised" ELSE "stage1_done"
             /\ verify_calls' = IF out.raised THEN verify_calls
                                ELSE verify_calls + 1
    /\ stage1_calls' = stage1_calls + 1
    /\ UNCHANGED <<report, validation_result, decision, pureVars, geoVars>>

\* Mutant: Stage 1 entered whatever the validation report says.
Stage1Unguarded ==
    /\ pc = "stage0_done"
    /\ RunStage1

\* LAYER 1: ai_result = self.ai_engine.predict(...); an exception of
\* predict leaves process_report without a return value.
Stage1 ==
    /\ pc = "stage0_done"
    /\ validation_result.is_valid
    /\ RunStage1

\* Mutant: a Stage 1 rejection that zeroes the score.
RejectStage1ZeroScore ==
    /\ pc = "stage1_done"
    /\ ~ai_result.is_valid_issue
    /\ decision' = [passed |-> FALSE,
                    errors |-> <<"AI could not identify a valid civic issue">>,
                    warnings |-> validation_result.warnings,
                    layer0 |-> validation_result,
                    layer1 |-> ai_result,
                    final_score |-> 0,
                    agent_decision |-> "REJECTED",
                    agent_reason |->
                        Text("AI confidence too low or not a civic issue")]
    /\ pc' = "returned"
    /\ UNCHANGED <<report, validation_result, ai_result, stage1_calls,
                   verify_calls, pureVars, geoVars>>

\* Mutant: a spoofed location rejects the report as well.
RejectStage1OrSpoofed ==
    /\ pc = "stage1_done"
    /\ \/ ~ai_result.is_valid_issue
       \/ ai_result.gps_verification.is_spoofed
    /\ decision' = [passed |-> FALSE,
                    errors |-> <<"AI could not identify a valid civic issue">>,
                    warnings |-> validation_result.warnings,
                    layer0 |-> validation_result,
                    layer1 |-> ai_result,
                    final_score |-> ai_result.final_score,
                    agent_decision |-> "REJECTED",
                    agent_reason |->
                        Text("AI confidence too low or not a civic issue")]
    /\ pc' = "returned"
    /\ UNCHANGED <<report, validation_result, ai_result, stage1_calls,
                   verify_calls, pureVars, geoVars>>

\* if not ai_result['is_valid_issue']: return {...}
RejectStage1 ==
    /\ pc = "stage1_done"
    /\ ~ai_result.is_valid_issue
    /\ decision' = [passed |-> FALSE,
                    errors |-> <<"AI could not identify a valid civic issue">>,
                    warnings |-> validation_result.warnings,
                    layer0 |-> validation_result,
                    layer1 |-> ai_result,
                    final_score |-> ai_result.final_score,
                    agent_decision |-> "REJECTED",
                    agent_reason |->
                        Text("AI confidence too low or not a civic issue")]
    /\ pc' = "returned"
    /\ UNCHANGED <<report, validation_result, ai_result, stage1_calls,
                   verify_calls, pureVars, geoVars>>

\* The ACCEPTED return value.
Accepted ==
    [passed |-> TRUE,
     errors |-> <<>>,
     warnings |-> validation_result.warnings,
     layer0 |-> validation_result,
     layer1 |-> ai_result,
     final_score |-> ai_result.final_score,
     agent_decision |-> "ACCEPTED",
     agent_reason |-> ai_result.message]

\* Mutant: the report accepted whatever is_valid_issue says.
AcceptUnchecked ==
    /\ pc = "stage1_done"
    /\ decision' = Accepted
    /\ pc' = "returned"
    /\ UNCHANGED <<report, validation_result, ai_result, stage1_calls,
                   verify_calls, pureVars, geoVars>>

\* COMBINE RESULTS - ACCEPT
Accept ==
    /\ pc = "stage1_done"
    /\ ai_result.is_valid_issue
    /\ decision' = Accepted
    /\ pc' = "returned"
    /\ UNCHANGED <<report, validation_result, ai_result, stage1_calls,
                   verify_calls, pureVars, geoVars>>

\* The call is over (returned or raised) and its locals are gone; the
\* caller may make the next one.
Finish ==
    /\ pc \in {"returned", "raised"}
    /\ pc' = "idle"
    /\ report' = NoneD
    /\ validation_result' = NoneD
    /\ ai_result' = NoneD
    /\ decision' = NoneD
    /\ stage1_calls' = 0
    /\ verify_calls' = 0
    /\ UNCHANGED <<pureVars, geoVars>>

Next == Submit \/ Stage0 \/ RejectStage0 \/ Stage1 \/ RejectStage1 \/ Accept
        \/ Finish

Init == PureIdle /\ InitPipeline /\ GeoIdle

Spec == Init /\ [][Next]_vars

----------------------------------------------------------------------------
(* AIEngine.predict on its own (process_report or predict_batch).          *)

\* softmax maxima from a classifier of any number of classes
PredictConfidences == {0, 20000, 33334, 49999, 50000, 50001, 69996, 70000,
                       89999, 90000, 95000, 100000}
PredictOutputs ==
    [raises : {FALSE}, predicted_class : ClassNames,
     confidence : PredictConfidences,
     size : SeverityOutcomes, features : SeverityOutcomes]
    \cup [raises : {TRUE}, predicted_class : {"other"}, confidence : {0},
          size : {"error"}, features : {"error"}]

PredictWorlds(latitude, longitude) ==
    [photo_gps : PhotoPoints(latitude, longitude),
     photo_address : {"Mall Road, Lahore, Punjab"},
     submitted_address : {None},
     overpass : OverpassAnswers]

PredictImages ==
    {BaseImage,
     [BaseImage EXCEPT !.exists = FALSE, !.pil_open = FALSE,
                       !.pil_verify = FALSE, !.cv_read = FALSE]}

PredictCoords ==
    {<<Float(Lahore[1]), Float(Lahore[2])>>,
     <<NoFloat, NoFloat>>,
     <<Float(910000000), Float(Lahore[2])>>}

InitPredict ==
    /\ \E img \in PredictImages, c \in PredictCoords,
          model_out \in PredictOutputs :
         \E world \in PredictWorlds(c[1], c[2]) :
           call = [fn |-> "predict", img |-> img, submitted_lat |-> c[1],
                   submitted_lon |-> c[2], model_out |-> model_out,
                   world |-> world]
    /\ ret = NoneD
    /\ PipeIdle
    /\ GeoIdle

CallPredict ==
    /\ call.fn = "predict"
    /\ ret = NoneD
    /\ ret' = predict(call.img, call.submitted_lat, call.submitted_lon,
                      call.model_out, call.world)
    /\ UNCHANGED <<call, pipeVars, geoVars>>

SpecPredict == InitPredict /\ [][CallPredict]_vars

----------------------------------------------------------------------------
(* GPSVerifier._calculate_score_adjustment on its own.                     *)

\* Largest landmark count handed to the function.
MaxLandmarkCount == 6

\* Distances (mm) around the thresholds 0.1 km, 0.5 km and 5 km.
Distances == {0, 1, 99999, 100000, 499999, 500000, 500001, 1000000, 2500000,
              4900000, 4999999, 5000000, 5000001, 6000000, 10007550,
              1000000000}

InitScore ==
    /\ call \in [fn : {"_calculate_score_adjustment"},
                 distance_km : Distances,
                 num_landmarks : 0..MaxLandmarkCount]
    /\ ret = NoneD
    /\ PipeIdle
    /\ GeoIdle

CallCalculateScoreAdjustment ==
    /\ call.fn = "_calculate_score_adjustment"
    /\ ret = NoneD
    /\ ret' = _calculate_score_adjustment(call.distance_km,
                                          call.num_landmarks)
    /\ UNCHANGED <<call, pipeVars, geoVars>>

SpecScore == InitScore /\ [][CallCalculateScoreAdjustment]_vars

----------------------------------------------------------------------------
(* GPSVerifier.verify_location on its own (any caller, any arguments).     *)

VerifyLatitudes == {Float(Lahore[1]), Float(910000000), Float(-900000001),
                    NoFloat, NotAFloat}
VerifyLongitudes == {Float(Lahore[2]), Float(1810000000), NoFloat}

InitVerify ==
    /\ \E lat \in VerifyLatitudes, lon \in VerifyLongitudes :
         \E world \in Worlds(lat, lon) :
           call = [fn |-> "verify_location", submitted_lat |-> lat,
                   submitted_lon |-> lon, world |-> world]
    /\ ret = NoneD
    /\ PipeIdle
    /\ GeoIdle

CallVerifyLocation ==
    /\ call.fn = "verify_location"
    /\ ret = NoneD
    /\ ret' = verify_location(call.world.photo_gps, call.submitted_lat,
                              call.submitted_lon, call.world)
    /\ UNCHANGED <<call, pipeVars, geoVars>>

SpecVerify == InitVerify /\ [][CallVerifyLocation]_vars

----------------------------------------------------------------------------
(* verify_location from the image file on: extract_gps, then the verdict   *)
(* and the requests sent.                                                  *)

\* 31 deg 31' 13.44" and 74 deg 21' 31.32": Lahore
DmsLatitudes == {NoneT, <<31, 31, 1344>>, <<31, 31>>}
DmsLongitudes == {NoneT, <<74, 21, 3132>>}

ExifGps ==
    [state : {"gps"}, GPSLatitude : DmsLatitudes,
     GPSLatitudeRef : {None, "N", "S"},
     GPSLongitude : DmsLongitudes, GPSLongitudeRef : {None, "E"}]
    \cup [state : {"read_error", "no_exif", "no_gpsinfo"},
          GPSLatitude : {NoneT}, GPSLatitudeRef : {None},
          GPSLongitude : {NoneT}, GPSLongitudeRef : {None}]

\* Submitted coordinates: on Lahore's meridian at 0 m, 89 m, 2.5 km and
\* 5.1 km from Lahore, absent, out of range and non-numeric.
ImageCoords ==
    {<<Float(Lahore[1] + off), Float(Lahore[2])>> :
         off \in {0, 8000, 225000, 460000}}
    \cup {<<NoFloat, NoFloat>>, <<NoFloat, Float(Lahore[2])>>,
          <<Float(Lahore[1] + 460000), NoFloat>>,
          <<Float(910000000), Float(Lahore[2])>>,
          <<Float(Lahore[1]), Float(-1800000001)>>,
          <<NotAFloat, Float(Lahore[2])>>}

Services ==
    [photo_address : {None, "Mall Road, Lahore, Punjab"},
     submitted_address : {None, "Canal Road, Lahore, Punjab"},
     overpass : OverpassAnswers]

InitVerifyImage ==
    /\ call \in [fn : {"verify_image"}, exif : ExifGps, coords : ImageCoords,
                 services : Services]
    /\ ret = NoneD
    /\ PipeIdle
    /\ GeoIdle

CallVerifyImage ==
    /\ call.fn = "verify_image"
    /\ ret = NoneD
    /\ LET photo_gps_data == extract_gps(call.exif)
       IN ret' = [result |-> verify_location(photo_gps_data, call.coords[1],
                                             call.coords[2], call.services),
                  requests |-> verify_location_requests(photo_gps_data,
                                                        call.coords[1],
                                                        call.coords[2])]
    /\ UNCHANGED <<call, pipeVars, geoVars>>

SpecVerifyImage == InitVerifyImage /\ [][CallVerifyImage]_vars

----------------------------------------------------------------------------
(* Geocoder.reverse_geocode and its throttle, _respect_rate_limit.         *)
(*                                                                         *)
(* Time passes (Tick) only while every caller is idle, asleep in           *)
(* time.sleep or waiting for the HTTP response; the statements between     *)
(* take no time.  time.sleep(s) returns no earlier than s later.           *)

\* Clock resolution and the horizon of the clock, in ticks.
TicksPerSecond == 2
MaxTicks == 6
\* reverse_geocode calls each caller makes
MaxCalls == 2
\* callers sharing the Geocoder in the concurrent specification
NumThreads == 2

\* NOMINATIM_DELAY = 1.0 second
NOMINATIM_DELAY == 1 * TicksPerSecond

\* time.time() at start-up: epoch seconds, far more than the delay past the
\* initial last_request_time = 0.
StartTime == NOMINATIM_DELAY

InitGeocoder(callers) ==
    /\ now = StartTime
    /\ last_request_time = 0
    /\ threads = callers
    /\ tpc = [t \in callers |-> "idle"]
    /\ current_time = [t \in callers |-> 0]
    /\ wake = [t \in callers |-> 0]
    /\ calls_left = [t \in callers |-> MaxCalls]
    /\ request_times = <<>>

\* reverse_geocode is entered; invalid coordinates return None at once.
Enter(t) ==
    /\ tpc[t] = "idle"
    /\ calls_left[t] > 0
    /\ \E valid \in BOOLEAN :
         IF valid
         THEN /\ tpc' = [tpc EXCEPT ![t] = "rl_time"]
              /\ UNCHANGED calls_left
         ELSE /\ calls_left' = [calls_left EXCEPT ![t] = @ - 1]
              /\ UNCHANGED tpc
    /\ UNCHANGED <<now, last_request_time, threads, current_time, wake,
                   request_times, pureVars, pipeVars>>

\* current_time = time.time()
ReadTime(t) ==
    /\ tpc[t] = "rl_time"
    /\ current_time' = [current_time EXCEPT ![t] = now]
    /\ tpc' = [tpc EXCEPT ![t] = "rl_since"]
    /\ UNCHANGED <<now, last_request_time, threads, wake, calls_left,
                   request_times, pureVars, pipeVars>>

\* Mutant: the throttle never sleeps.
ReadLastNoSleep(t) ==
    /\ tpc[t] = "rl_since"
    /\ tpc' = [tpc EXCEPT ![t] = "rl_stamp"]
    /\ UNCHANGED <<now, last_request_time, threads, current_time, wake,
                   calls_left, request_times, pureVars, pipeVars>>

\* time_since_last_request = current_time - self.last_request_time, and the
\* call of time.sleep(NOMINATIM_DELAY - time_since_last_request) if it is
\* below the delay.
ReadLast(t) ==
    /\ tpc[t] = "rl_since"
    /\ LET time_since_last_request == current_time[t] - last_request_time
       IN IF time_since_last_request < NOMINATIM_DELAY
          THEN /\ wake' = [wake EXCEPT ![t] =
                              now + (NOMINATIM_DELAY - time_since_last_request)]
               /\ tpc' = [tpc EXCEPT ![t] = "rl_sleep"]
          ELSE /\ tpc' = [tpc EXCEPT ![t] = "rl_stamp"]
               /\ UNCHANGED wake
    /\ UNCHANGED <<now, last_request_time, threads, current_time, calls_left,
                   request_times, pureVars, pipeVars>>

\* time.sleep returns
Wake(t) ==
    /\ tpc[t] = "rl_sleep"
    /\ now >= wake[t]
    /\ tpc' = [tpc EXCEPT ![t] = "rl_stamp"]
    /\ UNCHANGED <<now, last_request_time, threads, current_time, wake,
                   calls_left, request_times, pureVars, pipeVars>>

\* self.last_request_time = time.time(); _respect_rate_limit returns and
\* its locals are gone.
Stamp(t) ==
    /\ tpc[t] = "rl_stamp"
    /\ last_request_time' = now
    /\ tpc' = [tpc EXCEPT ![t] = "get"]
    /\ current_time' = [current_time EXCEPT ![t] = 0]
    /\ wake' = [wake EXCEPT ![t] = 0]
    /\ UNCHANGED <<now, threads, calls_left, request_times, pureVars,
                   pipeVars>>

\* self.session.get(NOMINATIM_API_URL, ...) is issued
Get(t) ==
    /\ tpc[t] = "get"
    /\ request_times' = Append(request_times, now)
    /\ tpc' = [tpc EXCEPT ![t] = "response"]
    /\ UNCHANGED <<now, last_request_time, threads, current_time, wake,
                   calls_left, pureVars, pipeVars>>

\* The response, a timeout or an error ends the call.
Return(t) ==
    /\ tpc[t] = "response"
    /\ tpc' = [tpc EXCEPT ![t] = "idle"]
    /\ calls_left' = [calls_left EXCEPT ![t] = @ - 1]
    /\ UNCHANGED <<now, last_request_time, threads, current_time, wake,
                   request_times, pureVars, pipeVars>>

Blocked(t) == tpc[t] \in {"idle", "rl_sleep", "response"}

Tick ==
    /\ now < StartTime + MaxTicks
    /\ \A t \in threads : Blocked(t)
    /\ now' = now + 1
    /\ UNCHANGED <<last_request_time, threads, tpc, current_time, wake,
                   calls_left, request_times, pureVars, pipeVars>>

NextGeocoder ==
    \/ \E t \in threads : Enter(t)
    \/ \E t \in threads : ReadTime(t)
    \/ \E t \in threads : ReadLast(t)
    \/ \E t \in threads : Wake(t)
    \/ \E t \in threads : Stamp(t)
    \/ \E t \in threads : Get(t)
    \/ \E t \in threads : Return(t)
    \/ Tick

\* One caller: the calls of one process_report after another.
InitGeocoderSequential == PureIdle /\ PipeIdle /\ InitGeocoder({1})

SpecGeocoderSequential == InitGeocoderSequential /\ [][NextGeocoder]_vars

\* Several callers share the Geocoder of one GPSVerifier.
InitGeocoderShared == PureIdle /\ PipeIdle /\ InitGeocoder(1..NumThreads)

SpecGeocoderShared == InitGeocoderShared /\ [][NextGeocoder]_vars

----------------------------------------------------------------------------
(* InputValidator._calculate_quality on its own, on any list of checks.    *)

MaxChecks == 3

QualityNames ==
    {"File Size", "Timestamp", "Screenshot Detection", "Custom Check"}
QualityScores == {0, 5000, 9667, 10000}

QualityChecks ==
    {CheckResult(n, TRUE, sc, "") : n \in QualityNames, sc \in QualityScores}

InitQuality ==
    /\ call \in {[fn |-> "_calculate_quality", checks |-> c] :
                    c \in UNION {[1..n -> QualityChecks] : n \in 0..MaxChecks}}
    /\ ret = NoneD
    /\ PipeIdle
    /\ GeoIdle

CallCalculateQuality ==
    /\ call.fn = "_calculate_quality"
    /\ ret = NoneD
    /\ ret' = [quality |-> _calculate_quality(call.checks)]
    /\ UNCHANGED <<call, pipeVars, geoVars>>

SpecQuality == InitQuality /\ [][CallCalculateQuality]_vars

----------------------------------------------------------------------------
(* Properties of process_report (under Spec).                              *)

\* The validation report of the call in progress says is_valid.
Stage0Passed == validation_result # NoneD /\ validation_result.is_valid

\* The Decision of a Stage 0 rejection.
Stage0Rejection(d) ==
    /\ d.agent_decision = "REJECTED"
    /\ d.passed = FALSE
    /\ d.final_score = 0
    /\ d.layer1 = NoneD
    /\ d.agent_reason = Text("Image quality validation failed")
    /\ d.errors = validation_result.errors
    /\ d.warnings = validation_result.warnings

C1_Safe ==
    /\ stage1_calls > 0 => Stage0Passed
    /\ verify_calls > 0 => Stage0Passed
    /\ pc \in {"stage1_done", "raised"} => Stage0Passed
    /\ (pc = "returned" /\ ~validation_result.is_valid)
           => Stage0Rejection(decision)

C1_Step ==
    (pc = "stage0_done" /\ ~validation_result.is_valid)
        => /\ pc' = "returned"
           /\ Stage0Rejection(decision')
           /\ stage1_calls' = 0
           /\ verify_calls' = 0

\* C1: predict and verify_location are invoked only after validate_all
\* returned is_valid = true; when it returned is_valid = false the only step
\* of the call is the return of the REJECTED Decision with passed = false,
\* final_score = 0, layer1 absent, agent_reason 'Image quality validation
\* failed' and the errors and warnings of the validation report.
C1_Stage1OnlyAfterValidStage0 == []C1_Safe /\ [][C1_Step]_vars

\* A Stage 0 rejection has been returned without Stage 1 having run.
C1_Witness ==
    /\ pc = "returned"
    /\ ~validation_result.is_valid
    /\ decision.agent_decision = "REJECTED"
    /\ decision.layer1 = NoneD
    /\ stage1_calls = 0

\* C2: in every returned Decision, passed = true iff agent_decision =
\* 'ACCEPTED' iff the validation report has is_valid = true and the
\* classification exists with is_valid_issue = true; otherwise passed =
\* false and agent_decision = 'REJECTED'.
C2_PassedIffAcceptedIffBothValid ==
    pc = "returned" =>
        LET both == /\ decision.layer0.is_valid
                    /\ decision.layer1 # NoneD
                    /\ decision.layer1.is_valid_issue
        IN /\ decision.layer0 = validation_result
           /\ decision.passed <=> decision.agent_decision = "ACCEPTED"
           /\ decision.agent_decision = "ACCEPTED" <=> both
           /\ ~both => /\ decision.passed = FALSE
                       /\ decision.agent_decision = "REJECTED"

\* A report has been accepted.
C2_Witness ==
    /\ pc = "returned"
    /\ decision.passed
    /\ decision.agent_decision = "ACCEPTED"
    /\ decision.layer0.is_valid
    /\ decision.layer1.is_valid_issue

\* C7: when Stage 1 ran, the Decision's final_score is the classifier's
\* final_score, on a rejection (is_valid_issue = false) as on an acceptance
\* (is_valid_issue = true, where agent_reason is the classifier's message);
\* a final_score of 0 comes from a Stage 0 rejection or from a sum
\* ai_score + score_adjustment that is not positive.
C7_FinalScoreIsClassifierScore ==
    pc = "returned" =>
        /\ decision.layer1 # NoneD =>
             /\ decision.final_score = decision.layer1.final_score
             /\ decision.layer1.is_valid_issue =>
                  /\ decision.agent_decision = "ACCEPTED"
                  /\ decision.agent_reason = decision.layer1.message
             /\ ~decision.layer1.is_valid_issue =>
                  decision.agent_decision = "REJECTED"
        /\ decision.final_score = 0 =>
             \/ decision.layer1 = NoneD /\ ~decision.layer0.is_valid
             \/ /\ decision.layer1 # NoneD
                /\ decision.layer1.ai_score
                     + 100 * decision.layer1.gps_verification.score_adjustment
                   <= 0

\* A Stage 1 rejection has kept the classifier's non-zero score.
C7_Witness ==
    /\ pc = "returned"
    /\ decision.layer1 # NoneD
    /\ ~decision.layer1.is_valid_issue
    /\ decision.agent_decision = "REJECTED"
    /\ decision.final_score > 0
    /\ decision.final_score = decision.layer1.final_score

----------------------------------------------------------------------------
(* Properties of validate_all (under SpecValidate).                        *)

FailedChecks(result) ==
    {result.checks[i].name :
        i \in {j \in 1..Len(result.checks) : ~result.checks[j].passed}}

\* C3: is_valid is false iff one of File Validity, Resolution, Blur
\* Detection, Brightness, GPS Validation has passed = false, whatever
\* overall_quality is and whichever other checks failed.
C3_IsValidIffNoHardErrorCheckFailed ==
    ret # NoneD =>
        (~ret.is_valid <=>
            FailedChecks(ret) \cap {"File Validity", "Resolution",
                                    "Blur Detection", "Brightness",
                                    "GPS Validation"} # {})

\* A report of high quality is invalid through one hard check alone.
C3_Witness ==
    /\ ret # NoneD
    /\ ~ret.is_valid
    /\ ret.overall_quality >= 9000
    /\ FailedChecks(ret) = {"GPS Validation"}

----------------------------------------------------------------------------
(* Properties of predict (under SpecPredict).                              *)

Returned == ret # NoneD /\ ~ret.raised

\* C6: ai_score is confidence x 100 rounded to two decimals and final_score
\* is ai_score + score_adjustment clamped into [0, 100].
C6_FinalScoreClamped ==
    Returned =>
        LET sum == ret.ai_score + 100 * ret.gps_verification.score_adjustment
        IN /\ ret.ai_score = RoundDiv(call.model_out.confidence, 10)
           /\ ret.final_score = IF sum < 0 THEN 0
                                ELSE IF sum > 10000 THEN 10000 ELSE sum
           /\ 0 <= ret.final_score /\ ret.final_score <= 10000

\* 95 + 10 has been clamped to 100.
C6_Witness ==
    /\ Returned
    /\ ret.ai_score = 9500
    /\ ret.gps_verification.score_adjustment = 10
    /\ ret.final_score = 10000

\* C8: is_valid_issue iff predicted_class is not 'other' and confidence is
\* at least 0.5; severity is small, medium or large when is_valid_issue and
\* None otherwise.
C8_ValidIssueAndSeverity ==
    Returned =>
        /\ ret.is_valid_issue <=>
             (call.model_out.predicted_class # "other"
              /\ call.model_out.confidence >= 50000)
        /\ ret.is_valid_issue => ret.severity \in {"small", "medium", "large"}
        /\ ~ret.is_valid_issue => ret.severity = None

\* A confidence of exactly 0.5 has made a valid issue with a severity.
C8_Witness ==
    /\ Returned
    /\ call.model_out.confidence = 50000
    /\ ret.is_valid_issue
    /\ ret.severity \in {"small", "medium", "large"}

\* The ordinal of a severity: small < medium < large.
SeverityRank(severity) ==
    CASE severity = "small" -> 0
      [] severity = "medium" -> 1
      [] severity = "large" -> 2

\* The vote of a heuristic: what it computed, or medium when it failed.
Vote(outcome) == IF outcome = "error" THEN "medium" ELSE outcome

\* C22: the severity is the more severe of the size-based and the
\* feature-based vote, for every pair of votes; a heuristic that fails
\* votes medium, and the severity is then at least medium.
C22_SeverityIsMaximumOfVotes ==
    (Returned /\ ret.is_valid_issue) =>
        LET size == SeverityRank(Vote(call.model_out.size))
            features == SeverityRank(Vote(call.model_out.features))
            final == SeverityRank(ret.severity)
        IN /\ final >= size /\ final >= features
           /\ final = size \/ final = features
           /\ "error" \in {call.model_out.size, call.model_out.features} =>
                  final >= 1

\* A small size-based vote and a large feature-based vote gave large.
C22_Witness ==
    /\ Returned
    /\ call.model_out.size = "small"
    /\ call.model_out.features = "large"
    /\ ret.severity = "large"

\* C27: the message is chosen by strict priority: the spoofing warning when
\* is_spoofed, whatever the class, the confidence and is_valid_issue; else,
\* for no valid issue, the non-issue explanation for class 'other' and the
\* low-confidence explanation otherwise; else the quality tier (Clear from
\* 90 %, Good from 70 %, Acceptable below), with a location clause only for
\* verified, good_match and minor_mismatch.
C27_MessagePriority ==
    Returned =>
        LET verification == ret.gps_verification
            status == verification.verification_status
            confidence == call.model_out.confidence
        IN IF verification.is_spoofed
           THEN /\ ret.message.text = "GPS SPOOFING DETECTED"
                /\ ret.message.points = verification.score_adjustment
           ELSE IF ~ret.is_valid_issue
           THEN IF ret.predicted_class = "other"
                THEN ret.message.text
                         = "This doesn't appear to be a civic issue"
                ELSE /\ ret.message.text = "Low confidence detection"
                     /\ ret.message.cls = ret.predicted_class
           ELSE /\ ret.message.text =
                       (IF confidence >= 90000 THEN "Clear"
                        ELSE IF confidence >= 70000 THEN "Good"
                        ELSE "Acceptable")
                /\ ret.message.cls = ret.predicted_class
                /\ ret.message.clause =
                       CASE status = "verified" ->
                                "Location verified with nearby landmarks."
                         [] status = "good_match" ->
                                "Location matches submitted coordinates."
                         [] status = "minor_mismatch" ->
                                "Minor location mismatch"
                         [] OTHER -> None

\* The spoofing warning was given for a photo classified 'other'.
C27_Witness ==
    /\ Returned
    /\ ret.gps_verification.is_spoofed
    /\ ret.predicted_class = "other"
    /\ ~ret.is_valid_issue
    /\ ret.message.text = "GPS SPOOFING DETECTED"

----------------------------------------------------------------------------
(* Properties of the location verifier (under SpecScore and SpecVerify).   *)

\* C4: for d >= 0, in this order: d > 5 km is spoofing_detected with -50 and
\* is_spoofed; d < 0.5 km with n >= 2 is verified with +10; d < 0.5 km is
\* good_match with 0; 0.5 km <= d <= 5 km, both ends included, is
\* minor_mismatch; 'unknown' is never returned.
C4_ClassificationOrder ==
    ret # NoneD =>
        LET d == call.distance_km
            n == call.num_landmarks
        IN /\ d > 5000000 =>
                /\ ret.status = "spoofing_detected"
                /\ ret.score_adjustment = -50
                /\ ret.is_spoofed
           /\ (d < 500000 /\ n >= 2) =>
                ret.status = "verified" /\ ret.score_adjustment = 10
           /\ (d < 500000 /\ n < 2) =>
                ret.status = "good_match" /\ ret.score_adjustment = 0
           /\ (500000 <= d /\ d <= 5000000) => ret.status = "minor_mismatch"
           /\ ret.status # "unknown"

\* C5: every result of verify_location has is_spoofed = true iff its
\* verification_status is 'spoofing_detected'.
C5_SpoofedIffSpoofingDetected ==
    ret # NoneD =>
        (ret.is_spoofed <=> ret.verification_status = "spoofing_detected")

\* verify_location has returned a spoofing verdict.
C5_Witness ==
    /\ ret # NoneD
    /\ ret.is_spoofed
    /\ ret.verification_status = "spoofing_detected"
    /\ ret.score_adjustment = SPOOFING_PENALTY

----------------------------------------------------------------------------
(* Properties of the geocoding throttle.                                   *)

\* C9 (under SpecGeocoderShared): whatever the interleaving of the callers
\* sharing the Geocoder, no two reverse-geocoding requests are issued less
\* than NOMINATIM_DELAY apart.
C9_SharedRequestsSpaced ==
    \A i, j \in 1..Len(request_times) :
        i < j => request_times[j] - request_times[i] >= NOMINATIM_DELAY

\* C10 (under SpecGeocoderSequential): with a single caller, each request is
\* issued at least NOMINATIM_DELAY after the one before it.
C10_ConsecutiveRequestsSpaced ==
    /\ threads = {1}
    /\ \A k \in 1..(Len(request_times) - 1) :
           request_times[k + 1] >= request_times[k] + NOMINATIM_DELAY

\* The single caller was made to sleep: two requests exactly the delay apart.
C10_Witness ==
    /\ threads = {1}
    /\ Len(request_times) >= 2
    /\ request_times[2] = request_times[1] + NOMINATIM_DELAY

----------------------------------------------------------------------------
(* Properties of verify_location from the image on (under SpecVerifyImage) *)

\* The EXIF data gives no usable position: read error, no EXIF, no GPSInfo,
\* or a coordinate or hemisphere reference missing.
NoUsableGps(exif) ==
    \/ exif.state \in {"read_error", "no_exif", "no_gpsinfo"}
    \/ exif.GPSLatitude = NoneT \/ exif.GPSLongitude = NoneT
    \/ exif.GPSLatitudeRef = None \/ exif.GPSLongitudeRef = None

\* C11: a photo without usable embedded GPS gives no_gps_in_photo with
\* score_adjustment 0, is_spoofed false, has_photo_gps false and no
\* distance, whatever the submitted coordinates are, and no geocoding or
\* landmark request is sent.
C11_NoPhotoGpsReturnsAtOnce ==
    (ret # NoneD /\ NoUsableGps(call.exif)) =>
        /\ ret.result.verification_status = "no_gps_in_photo"
        /\ ret.result.score_adjustment = 0
        /\ ret.result.is_spoofed = FALSE
        /\ ret.result.has_photo_gps = FALSE
        /\ ret.result.distance_km = NoneT
        /\ ret.result.submitted_gps = NoneT
        /\ ret.requests = <<>>

\* A photo whose hemisphere reference is missing met invalid submitted
\* coordinates and still gave no_gps_in_photo.
C11_Witness ==
    /\ ret # NoneD
    /\ call.exif.state = "gps"
    /\ call.exif.GPSLatitude # NoneT
    /\ call.exif.GPSLatitudeRef = None
    /\ call.coords[1] = Float(910000000)
    /\ ret.result.verification_status = "no_gps_in_photo"
    /\ ret.requests = <<>>

\* The photo carries a complete position.
UsableGps(exif) ==
    /\ exif.state = "gps"
    /\ exif.GPSLatitude # NoneT /\ Len(exif.GPSLatitude) = 3
    /\ exif.GPSLongitude # NoneT /\ Len(exif.GPSLongitude) = 3
    /\ exif.GPSLatitudeRef # None /\ exif.GPSLongitudeRef # None

\* Both coordinates are given and one is non-numeric or out of range.
Implausible(coords) ==
    /\ coords[1].tag # "none" /\ coords[2].tag # "none"
    /\ \/ coords[1].tag = "str" \/ coords[2].tag = "str"
       \/ coords[1].val < -900000000 \/ coords[1].val > 900000000
       \/ coords[2].val < -1800000000 \/ coords[2].val > 1800000000

\* C12: with GPS in the photo, submitted coordinates that are both given but
\* implausible give invalid_submitted_gps with is_spoofed false and
\* score_adjustment 0, and no geocoding or landmark request is sent.
C12_InvalidSubmittedGpsReturnsAtOnce ==
    (ret # NoneD /\ UsableGps(call.exif) /\ Implausible(call.coords)) =>
        /\ ret.result.verification_status = "invalid_submitted_gps"
        /\ ret.result.verification_status
               \notin {"spoofing_detected", "no_gps_in_photo"}
        /\ ret.result.is_spoofed = FALSE
        /\ ret.result.score_adjustment = 0
        /\ ret.result.has_photo_gps
        /\ ret.requests = <<>>

\* A latitude of 91 degrees was submitted with a photo that has GPS.
C12_Witness ==
    /\ ret # NoneD
    /\ UsableGps(call.exif)
    /\ call.coords[1] = Float(910000000)
    /\ ret.result.verification_status = "invalid_submitted_gps"
    /\ ret.result.photo_gps # NoneT
    /\ ret.requests = <<>>

\* What the distance alone says of a result.
DistanceVerdict(result) ==
    [is_spoofed |-> result.is_spoofed,
     spoofing_detected |-> result.verification_status = "spoofing_detected",
     minor_mismatch |-> result.verification_status = "minor_mismatch"]

\* The services with every request answered.
ServicesAvailable ==
    [photo_address |-> "Mall Road, Lahore, Punjab",
     submitted_address |-> "Canal Road, Lahore, Punjab",
     overpass |-> <<300, 80>>]

\* C13: when reverse geocoding or the landmark lookup fails, verify_location
\* still returns a result, with the address absent or the landmark list
\* empty, and is_spoofed, spoofing_detected and minor_mismatch are what they
\* are with the services available.
C13_ServiceFailureKeepsDistanceVerdict ==
    (ret # NoneD /\ ret.result.distance_km # NoneT) =>
        /\ ret.result.verification_status \in
               {"spoofing_detected", "verified", "good_match",
                "minor_mismatch", "unknown"}
        /\ call.services.photo_address = None =>
               ret.result.photo_address = None
        /\ (call.services.submitted_address = None
               /\ ret.result.distance_km[1] > 100000) =>
               ret.result.submitted_address = None
        /\ call.services.overpass = <<-1>> =>
               ret.result.nearby_landmarks = <<>>
        /\ DistanceVerdict(ret.result) =
               DistanceVerdict(verify_location(extract_gps(call.exif),
                                               call.coords[1], call.coords[2],
                                               ServicesAvailable))
        /\ ret.result.is_spoofed =
               (ret.result.distance_km[1] > SPOOFING_THRESHOLD_KM)

\* Both services failed for a photo taken far from the submitted point.
C13_Witness ==
    /\ ret # NoneD
    /\ call.services.photo_address = None
    /\ call.services.submitted_address = None
    /\ call.services.overpass = <<-1>>
    /\ ret.result.verification_status = "spoofing_detected"
    /\ ret.result.is_spoofed
    /\ ret.result.photo_address = None
    /\ ret.result.nearby_landmarks = <<>>

\* C14: every CheckResult of the twelve checks has a score between 0 and
\* 100, whatever the image and whatever the EXIF timestamp.
C14_CheckScoresWithinRange ==
    ret # NoneD =>
        \A i \in 1..Len(ret.checks) :
            0 <= ret.checks[i].score /\ ret.checks[i].score <= 10000

\* C15: in the minor_mismatch case score_adjustment is round(-10 * d / 5),
\* the integer nearest to the linear penalty, for every distance of the band.
C15_MinorMismatchPenaltyRounded ==
    (ret # NoneD /\ ret.status = "minor_mismatch") =>
        ret.score_adjustment =
            RoundDiv(-10 * call.distance_km, SPOOFING_THRESHOLD_KM)

\* C16: in every result of verify_location, has_photo_gps = true implies
\* that distance_km is a number.
C16_PhotoGpsImpliesDistance ==
    (ret # NoneD /\ ret.result.has_photo_gps) =>
        ret.result.distance_km # NoneT

\* The file is missing, has a refused extension, or does not decode.
Unreadable(img) ==
    \/ ~img.exists
    \/ img.ext \notin {".jpg", ".jpeg", ".png"}
    \/ ~img.pil_open
    \/ ~img.pil_verify

\* C17: for an unreadable image neither validate_all nor process_report
\* raises: the twelve checks all return a CheckResult, File Validity has
\* passed = false, is_valid is false, and the call returns a REJECTED
\* Decision at Stage 0.
C17_UnreadableImageRejectedAtStage0 ==
    (report # NoneD /\ Unreadable(report.image)) =>
        /\ pc \in {"stage0", "stage0_done", "returned"}
        /\ pc \in {"stage0_done", "returned"} =>
               /\ Len(validation_result.checks) = 12
               /\ \A i \in 1..12 :
                      /\ validation_result.checks[i].passed \in BOOLEAN
                      /\ validation_result.checks[i].score \in 0..10000
               /\ validation_result.checks[2].name = "File Validity"
               /\ validation_result.checks[2].passed = FALSE
               /\ validation_result.is_valid = FALSE
               /\ validation_result.errors # <<>>
        /\ pc = "returned" =>
               /\ decision.agent_decision = "REJECTED"
               /\ decision.passed = FALSE
               /\ decision.layer0 = validation_result
               /\ decision.layer1 = NoneD
               /\ stage1_calls = 0

\* A file with a refused extension was rejected at Stage 0.
C17_Witness ==
    /\ pc = "returned"
    /\ report.image.exists
    /\ report.image.ext = ".gif"
    /\ validation_result.checks[2].message = "Invalid file extension"
    /\ decision.agent_decision = "REJECTED"
    /\ decision.layer1 = NoneD

\* C18: when reverse geocoding fails during verify_location, the result
\* has no address and its penalty_reason says that the location service
\* was unavailable.
C18_GeocodingFailureRecorded ==
    (/\ ret # NoneD
     /\ ret.result.distance_km # NoneT
     /\ call.services.photo_address = None) =>
        /\ ret.result.photo_address = None
        /\ ret.result.penalty_reason = "ERROR_API_FAILURE"

\* The GPS check of a validation report.
GpsCheck(result) == result.checks[12]

\* The point, rounded to six decimals, lies in the rectangle of Pakistan.
RoundedInPakistan(latitude, longitude) ==
    /\ latitude.tag = "float" /\ longitude.tag = "float"
    /\ 230000000 <= Round6(latitude.val) /\ Round6(latitude.val) <= 370000000
    /\ 600000000 <= Round6(longitude.val)
    /\ Round6(longitude.val) <= 780000000

\* C19: the GPS check passes with score 100 exactly when both coordinates
\* are numbers whose values rounded to six decimals lie in [23, 37] x
\* [60, 78]; otherwise it fails with score 0 and its message is an error of
\* the report; rounding a coordinate of six decimals changes nothing.
C19_GpsCheckOnRoundedPoint ==
    ret # NoneD =>
        /\ GpsCheck(ret).name = "GPS Validation"
        /\ GpsCheck(ret).passed
               <=> RoundedInPakistan(call.latitude, call.longitude)
        /\ GpsCheck(ret).score = IF GpsCheck(ret).passed THEN 10000 ELSE 0
        /\ ~GpsCheck(ret).passed =>
               /\ \E i \in 1..Len(ret.errors) :
                      ret.errors[i] = GpsCheck(ret).message
               /\ ret.is_valid = FALSE
        /\ \A c \in {call.latitude, call.longitude} :
               c.tag = "float" =>
                   /\ Round6(Round6(c.val)) = Round6(c.val)
                   /\ c.val % 10 = 0 => Round6(c.val) = c.val

\* A latitude of 22.9999996 was rounded to 23.000000 and accepted.
C19_Witness ==
    /\ ret # NoneD
    /\ call.latitude = Float(229999996)
    /\ call.longitude = Float(780000004)
    /\ GpsCheck(ret).passed
    /\ GpsCheck(ret).score = 10000

\* The names of the checklist, in its order.
CheckNames ==
    <<"File Size", "File Validity", "Color Mode", "Dimension Limits",
      "Aspect Ratio", "Resolution", "Blur Detection", "Brightness",
      "Content Validation", "Timestamp", "Screenshot Detection",
      "GPS Validation">>

\* The messages of a sequence of checks.
Messages(checks) == [i \in 1..Len(checks) |-> checks[i].message]

\* C20: validate_all runs the twelve checks in their fixed order whatever
\* fails; errors are the messages of the failed hard checks, warnings the
\* messages of the failed other checks and of the passed checks whose message
\* contains 'warning', each in checklist order; no check gives more than one
\* message over the two lists.
C20_AllChecksRunAndCollected ==
    ret # NoneD =>
        LET IsHard(check) ==
                check.name \in {"File Validity", "Resolution",
                                "Blur Detection", "Brightness",
                                "GPS Validation"}
            ToErrors(check) == ~check.passed /\ IsHard(check)
            ToWarnings(check) ==
                \/ ~check.passed /\ ~IsHard(check)
                \/ check.passed /\ ContainsWarning(check.message)
        IN /\ Len(ret.checks) = 12
           /\ \A i \in 1..12 : ret.checks[i].name = CheckNames[i]
           /\ ret.errors = Messages(SelectSeq(ret.checks, ToErrors))
           /\ ret.warnings = Messages(SelectSeq(ret.checks, ToWarnings))
           /\ \A i \in 1..12 :
                  ~(ToErrors(ret.checks[i]) /\ ToWarnings(ret.checks[i]))
           /\ Len(ret.errors) + Len(ret.warnings) =
                  Cardinality({i \in 1..12 :
                                  \/ ToErrors(ret.checks[i])
                                  \/ ToWarnings(ret.checks[i])})

\* An invalid file did not stop the checklist: later checks failed as
\* errors and as warnings, and a passed check gave a warning.
C20_Witness ==
    /\ ret # NoneD
    /\ ret.checks[2].passed = FALSE
    /\ Len(ret.checks) = 12
    /\ ret.checks[12].passed = FALSE
    /\ Len(ret.errors) >= 2
    /\ \E i \in 3..12 : ~ret.checks[i].passed
                           /\ ret.checks[i].name \notin HardErrorChecks
    /\ \E i \in 1..12 : ret.checks[i].passed
                           /\ ContainsWarning(ret.checks[i].message)

----------------------------------------------------------------------------
(* Properties of _calculate_quality (under SpecQuality).                   *)

\* C21: _calculate_quality is the weighted mean of the scores, to the
\* nearest hundredth, with the weight of each name and 1.0 for an unknown
\* name; 0 for no checks; 100 when every check scores 100; and between the
\* smallest and the largest score.
C21_QualityIsWeightedMean ==
    ret # NoneD =>
        LET checks == call.checks
            n == Len(checks)
            W[i \in 0..n] ==
                IF i = 0 THEN 0 ELSE W[i - 1] + Weight(checks[i].name)
            S[i \in 0..n] ==
                IF i = 0 THEN 0
                ELSE S[i - 1] + checks[i].score * Weight(checks[i].name)
            D == ret.quality * W[n] - S[n]
        IN /\ n = 0 => ret.quality = 0
           /\ n > 0 =>
                  /\ W[n] > 0
                  /\ -W[n] <= 2 * D /\ 2 * D <= W[n]
                  /\ \E i \in 1..n : checks[i].score <= ret.quality
                  /\ \E i \in 1..n : ret.quality <= checks[i].score
           /\ (n > 0 /\ \A i \in 1..n : checks[i].score = 10000) =>
                  ret.quality = 10000
           /\ \A i \in 1..n :
                  Weight(checks[i].name) =
                      CASE checks[i].name = "File Size" -> 20
                        [] checks[i].name = "Timestamp" -> 8
                        [] checks[i].name = "Screenshot Detection" -> 5
                        [] checks[i].name = "Custom Check" -> 10

\* A check of an unknown name counted with weight 1.0 beside File Size (2.0).
C21_Witness ==
    /\ ret # NoneD
    /\ Len(call.checks) = 2
    /\ call.checks[1].name = "Custom Check" /\ call.checks[1].score = 10000
    /\ call.checks[2].name = "File Size" /\ call.checks[2].score = 0
    /\ ret.quality = 3333

----------------------------------------------------------------------------
(* Further properties of verify_location (under SpecVerifyImage).          *)

\* C23: when a submitted coordinate is absent and the photo has GPS, the
\* photo's point is compared with itself: submitted_gps is photo_gps,
\* distance_km is 0, the status is good_match or verified, and
\* score_adjustment is not negative.
C23_AbsentCoordinateComparesPhotoWithItself ==
    (/\ ret # NoneD
     /\ UsableGps(call.exif)
     /\ call.coords[1].tag = "none" \/ call.coords[2].tag = "none") =>
        /\ ret.result.has_photo_gps
        /\ ret.result.submitted_gps = ret.result.photo_gps
        /\ ret.result.photo_gps = extract_gps(call.exif)
        /\ ret.result.distance_km = <<0>>
        /\ ret.result.verification_status \in {"good_match", "verified"}
        /\ ret.result.score_adjustment >= 0
        /\ ret.result.is_spoofed = FALSE

\* A latitude 5.1 km from the photo was given without a longitude, and two
\* landmarks verified the photo's own point.
C23_Witness ==
    /\ ret # NoneD
    /\ UsableGps(call.exif)
    /\ call.coords[1] = Float(Lahore[1] + 460000)
    /\ call.coords[2] = NoFloat
    /\ ret.result.distance_km = <<0>>
    /\ ret.result.verification_status = "verified"
    /\ ret.result.score_adjustment = 10

----------------------------------------------------------------------------
(* Further properties of the checks (under SpecValidate).                  *)

\* C24: the File Size check passes iff the size is in [10 KiB, 10 MiB] and
\* fails with score 0 otherwise; a passing file scores 100 up to 5 MiB, and
\* from there the score decays linearly down to the floor of 50 at 10 MiB.
C24_FileSizeScoreDecaysToFloor ==
    (ret # NoneD /\ call.img.exists) =>
        LET check == ret.checks[1]
            size == call.img.file_size
            half == 5 * 1024 * 1024
            \* 100 - 50 * (size - 5 MiB) / 5 MiB, in hundredths
            linear == 10000 - RoundDiv((size - half) * 125, 131072)
        IN /\ check.name = "File Size"
           /\ check.passed <=> (10 * 1024 <= size /\ size <= 10 * 1024 * 1024)
           /\ ~check.passed => check.score = 0
           /\ (check.passed /\ size <= half) => check.score = 10000
           /\ (check.passed /\ size > half) =>
                  /\ check.score >= 5000
                  /\ check.score = Max(5000, linear)

\* The Timestamp check of a validation report.
TimestampCheck(result) == result.checks[10]

\* C25: for a photo with a timestamp older than 30 days the Timestamp check
\* fails as a warning, and its score gets lower as the age beyond the limit
\* grows.
C25_TooOldScoreDecaysWithAge ==
    (/\ ret # NoneD
     /\ call.img.pil_open
     /\ call.img.exif = "dated"
     /\ call.img.age_days > 30) =>
        LET older == [call.img EXCEPT !.age_days = @ + 1]
        IN /\ TimestampCheck(ret).passed = FALSE
           /\ \E i \in 1..Len(ret.warnings) :
                  ret.warnings[i] = TimestampCheck(ret).message
           /\ _check_timestamp(older).passed = FALSE
           /\ _check_timestamp(older).score < TimestampCheck(ret).score

\* s has the element x.
Has(s, x) == \E i \in 1..Len(s) : s[i] = x

\* C26: the Timestamp check never makes is_valid false: without EXIF,
\* without a DateTime tag, with an unparseable timestamp or on a read error
\* it passes with score 50 and its message is a warning; a too-old photo
\* fails as a warning, not as an error.
C26_TimestampNeverInvalidates ==
    ret # NoneD =>
        LET check == TimestampCheck(ret)
            unread == \/ ~call.img.pil_open
                      \/ call.img.exif \in {"error", "none", "no_datetime",
                                            "unparseable"}
        IN /\ check.name = "Timestamp"
           /\ unread => /\ check.passed
                        /\ check.score = 5000
                        /\ Has(ret.warnings, check.message)
           /\ (~unread /\ call.img.age_days > 30) =>
                  /\ check.passed = FALSE
                  /\ Has(ret.warnings, check.message)
           /\ ~Has(ret.errors, check.message)
           /\ ret.is_valid <=>
                  \A i \in (1..12) \ {10} :
                      \/ ret.checks[i].passed
                      \/ ret.checks[i].name \notin
                             {"File Validity", "Resolution", "Blur Detection",
                              "Brightness", "GPS Validation"}

\* A photo 400 days old, otherwise in order, was found valid with a warning.
C26_Witness ==
    /\ ret # NoneD
    /\ call.img.exif = "dated" /\ call.img.age_days = 400
    /\ TimestampCheck(ret).passed = FALSE
    /\ ret.is_valid
    /\ Has(ret.warnings, TimestampCheck(ret).message)

----------------------------------------------------------------------------
(* Further properties of process_report (under Spec).                      *)

\* Stage 1 ran and the call has returned its Decision.
ReturnedAfterStage1 == pc = "returned" /\ decision.layer1 # NoneD

\* What the verification of a report may meet: every photo position and
\* every landmark answer, the geocoder being down.
VerificationsOf(r) ==
    {world \in Worlds(r.latitude, r.longitude) :
        world.photo_address = None /\ world.submitted_address = None}

\* C28: the outcome of process_report does not depend on the location
\* verification: with the validation report, the class and the confidence
\* of the call, whatever photo position, addresses and landmarks the
\* verification meets, is_valid_issue is the same, and passed and
\* agent_decision follow it; a spoofed valid issue is ACCEPTED.
C28_OutcomeIndependentOfVerification ==
    ReturnedAfterStage1 =>
        /\ \A c \in Confidences,
              world \in VerificationsOf(report) :
              \* c is a confidence the classifier may have had in this call
              (/\ RoundDiv(c, 10) = ai_result.confidence
               /\ ai_result.is_valid_issue
                      = (ai_result.predicted_class # "other" /\ c >= 50000))
              =>
              LET other == predict(report.image, report.latitude,
                                   report.longitude,
                                   [raises |-> FALSE,
                                    predicted_class |->
                                        ai_result.predicted_class,
                                    confidence |-> c,
                                    size |-> "small", features |-> "small"],
                                   world)
              IN /\ other.is_valid_issue = ai_result.is_valid_issue
                 /\ decision.passed = other.is_valid_issue
                 /\ decision.agent_decision =
                        IF other.is_valid_issue THEN "ACCEPTED"
                        ELSE "REJECTED"
        /\ (ai_result.gps_verification.is_spoofed
                /\ ai_result.is_valid_issue) =>
               /\ decision.passed
               /\ decision.agent_decision = "ACCEPTED"

\* A pothole photographed 5.1 km from the submitted point was accepted with
\* the spoofing penalty in its score.
C28_Witness ==
    /\ ReturnedAfterStage1
    /\ ai_result.is_valid_issue
    /\ ai_result.gps_verification.is_spoofed
    /\ ai_result.gps_verification.score_adjustment = -50
    /\ decision.passed
    /\ decision.agent_decision = "ACCEPTED"
    /\ decision.final_score = ai_result.ai_score - 5000

\* C29: whenever Stage 1 has run, both submitted coordinates are present
\* and, rounded to six decimals, inside the rectangle of Pakistan, because a
\* failed GPS Validation rejects at Stage 0; so the verification_status is
\* never invalid_submitted_gps and the photo's point is never compared with
\* itself for want of submitted coordinates.
C29_Stage1CoordinatesValidated ==
    (ai_result # NoneD) =>
        LET verification == ai_result.gps_verification
        IN /\ validation_result.checks[12].passed
           /\ report.latitude.tag = "float"
           /\ report.longitude.tag = "float"
           /\ 230000000 <= Round6(report.latitude.val)
           /\ Round6(report.latitude.val) <= 370000000
           /\ 600000000 <= Round6(report.longitude.val)
           /\ Round6(report.longitude.val) <= 780000000
           /\ verification.verification_status # "invalid_submitted_gps"
           /\ verification.has_photo_gps =>
                  verification.submitted_gps =
                      <<report.latitude.val, report.longitude.val>>

\* Stage 1 ran on a latitude that only rounding brings into the rectangle,
\* and the verification compared the photo with the submitted point.
C29_Witness ==
    /\ ReturnedAfterStage1
    /\ report.latitude = Float(229999996)
    /\ ai_result.gps_verification.has_photo_gps
    /\ ai_result.gps_verification.submitted_gps
           = <<229999996, report.longitude.val>>
    /\ ai_result.gps_verification.distance_km # NoneT

\* C30: in every Decision passed is true iff errors is empty: a Stage 0
\* rejection has at least one error, the messages of the failed hard checks;
\* a Stage 1 rejection has exactly one; an ACCEPTED decision has none; and
\* the warnings are those of the validation report.
C30_PassedIffNoErrors ==
    pc = "returned" =>
        /\ decision.passed <=> decision.errors = <<>>
        /\ decision.warnings = validation_result.warnings
        /\ decision.layer0 = validation_result
        /\ (decision.agent_decision = "REJECTED" /\ decision.layer1 = NoneD) =>
               /\ Len(decision.errors) >= 1
               /\ decision.errors = validation_result.errors
               /\ \A i \in 1..Len(decision.errors) :
                      \E k \in 1..12 :
                          /\ validation_result.checks[k].passed = FALSE
                          /\ validation_result.checks[k].name \in
                                 {"File Validity", "Resolution",
                                  "Blur Detection", "Brightness",
                                  "GPS Validation"}
                          /\ validation_result.checks[k].message
                                 = decision.errors[i]
        /\ (decision.agent_decision = "REJECTED" /\ decision.layer1 # NoneD) =>
               /\ Len(decision.errors) = 1
               /\ validation_result.errors = <<>>
        /\ decision.agent_decision = "ACCEPTED" =>
               /\ decision.errors = <<>>
               /\ decision.passed
        /\ decision.agent_decision \in {"ACCEPTED", "REJECTED"}

\* A Stage 1 rejection returned its one error with the warnings of a
\* validation report that had some.
C30_Witness ==
    /\ pc = "returned"
    /\ decision.agent_decision = "REJECTED"
    /\ decision.layer1 # NoneD
    /\ Len(decision.errors) = 1
    /\ decision.warnings # <<>>
    /\ decision.warnings = validation_result.warnings
    /\ decision.passed = FALSE

=============================================================================
